---- MODULE Spec2Model ----
(***************************************************************************)
(* Model of the AI orchestration core of Customize-Resume:                 *)
(*   - callGeminiAPI (AIHandler and AgenticAIHandler): retry loop          *)
(*   - the stage agents (analyzeJob, createStrategy, applyOptimizations,   *)
(*     validateAndRefine) and their extractJSON                            *)
(*   - AgenticAIHandler.customizeResumeWithAgents                          *)
(* Model replies are token sequences; JSON.parse is a recursive-descent    *)
(* parser over them.  Error messages are sequences of message parts.       *)
(***************************************************************************)
EXTENDS Integers, Sequences, FiniteSets, TLC

(***************************************************************************)
(* Bounds                                                                  *)
(***************************************************************************)
\* largest value of the maxRetries field the model configures
MaxRetriesBound == 4

(***************************************************************************)
(* JSON values                                                             *)
(***************************************************************************)
JNull == [t |-> "null"]
JBool(b) == [t |-> "bool", b |-> b]
JNum(n) == [t |-> "num", n |-> n]
JStr(s) == [t |-> "str", s |-> s]
JArr(a) == [t |-> "arr", a |-> a]
JObj(o) == [t |-> "obj", o |-> o]
\* the value of reading a property that is not there
Undefined == [t |-> "undefined"]

EmptyObj == JObj([k \in {} |-> JNull])

\* JavaScript ToBoolean
Truthy(v) ==
    CASE v.t = "undefined" -> FALSE
      [] v.t = "null" -> FALSE
      [] v.t = "bool" -> v.b
      [] v.t = "num" -> v.n # 0
      [] v.t = "str" -> v.s # ""
      [] OTHER -> TRUE

\* typeof v === 'object' (true of null, arrays and plain objects)
TypeofObject(v) == v.t \in {"null", "arr", "obj"}

\* Array.isArray(v)
IsArray(v) == v.t = "arr"

\* v[key] for a value that is neither null nor undefined
Get(v, key) ==
    IF v.t = "obj" /\ key \in DOMAIN v.o THEN v.o[key] ELSE Undefined

\* key in v, for an object-typed non-null v
HasKey(v, key) == v.t = "obj" /\ key \in DOMAIN v.o

\* the object o with key set to val (a later duplicate key wins in JSON.parse)
Put(o, key, val) ==
    [k \in (DOMAIN o) \cup {key} |-> IF k = key THEN val ELSE o[k]]

(***************************************************************************)
(* Text as a sequence of tokens                                            *)
(***************************************************************************)
P(s) == [k |-> "punct", s |-> s]
LB == P("{")
RB == P("}")
LK == P("[")
RK == P("]")
CL == P(":")
CM == P(",")
FENCE == P("fence")
WS == [k |-> "ws", s |-> " "]
\* a word of prose: never part of valid JSON
W(s) == [k |-> "word", s |-> s]
\* a JSON string literal "s"
S(s) == [k |-> "string", s |-> s]
\* JSON literals
LitNull == [k |-> "lit", s |-> "null"]
LitTrue == [k |-> "lit", s |-> "true"]
LitFalse == [k |-> "lit", s |-> "false"]
Lit0 == [k |-> "lit", s |-> "0"]
Lit1 == [k |-> "lit", s |-> "1"]

LitValue(tok) ==
    CASE tok.s = "null" -> JNull
      [] tok.s = "true" -> JBool(TRUE)
      [] tok.s = "false" -> JBool(FALSE)
      [] tok.s = "0" -> JNum(0)
      [] OTHER -> JNum(1)

\* String.prototype.trim
RECURSIVE TrimLeft(_)
TrimLeft(txt) ==
    IF txt # <<>> /\ Head(txt) = WS THEN TrimLeft(Tail(txt)) ELSE txt

RECURSIVE TrimRight(_)
TrimRight(txt) ==
    IF txt # <<>> /\ txt[Len(txt)] = WS
    THEN TrimRight(SubSeq(txt, 1, Len(txt) - 1))
    ELSE txt

Trim(txt) == TrimRight(TrimLeft(txt))

\* index of the first token at or after i that is not whitespace
RECURSIVE SkipWS(_, _)
SkipWS(txt, i) ==
    IF i <= Len(txt) /\ txt[i] = WS THEN SkipWS(txt, i + 1) ELSE i

Fail == [ok |-> FALSE, val |-> Undefined, next |-> 0]
Ok(v, n) == [ok |-> TRUE, val |-> v, next |-> n]

\* JSON.parse: recursive descent.  ParseValue(txt, i) parses one value that
\* starts at the first non-whitespace token at or after i.
RECURSIVE ParseValue(_, _)
RECURSIVE ParseMembers(_, _, _)
RECURSIVE ParseElements(_, _, _)

ParseValue(txt, i0) ==
    LET i == SkipWS(txt, i0) IN
    IF i > Len(txt) THEN Fail
    ELSE LET tok == txt[i] IN
         CASE tok.k = "lit" -> Ok(LitValue(tok), i + 1)
           [] tok.k = "string" -> Ok(JStr(tok.s), i + 1)
           [] tok = LB ->
                LET j == SkipWS(txt, i + 1) IN
                IF j <= Len(txt) /\ txt[j] = RB
                THEN Ok(EmptyObj, j + 1)
                ELSE ParseMembers(txt, i + 1, EmptyObj.o)
           [] tok = LK ->
                LET j == SkipWS(txt, i + 1) IN
                IF j <= Len(txt) /\ txt[j] = RK
                THEN Ok(JArr(<<>>), j + 1)
                ELSE ParseElements(txt, i + 1, <<>>)
           [] OTHER -> Fail

\* members of an object after an opening brace or a comma
ParseMembers(txt, i0, acc) ==
    LET i == SkipWS(txt, i0) IN
    IF i > Len(txt) \/ txt[i].k # "string" THEN Fail
    ELSE LET c == SkipWS(txt, i + 1) IN
         IF c > Len(txt) \/ txt[c] # CL THEN Fail
         ELSE LET r == ParseValue(txt, c + 1) IN
              IF ~r.ok THEN Fail
              ELSE LET n == SkipWS(txt, r.next)
                       acc2 == Put(acc, txt[i].s, r.val)
                   IN IF n > Len(txt) THEN Fail
                      ELSE IF txt[n] = RB THEN Ok(JObj(acc2), n + 1)
                      ELSE IF txt[n] = CM THEN ParseMembers(txt, n + 1, acc2)
                      ELSE Fail

\* elements of an array after an opening bracket or a comma
ParseElements(txt, i0, acc) ==
    LET r == ParseValue(txt, i0) IN
    IF ~r.ok THEN Fail
    ELSE LET n == SkipWS(txt, r.next)
             acc2 == Append(acc, r.val)
         IN IF n > Len(txt) THEN Fail
            ELSE IF txt[n] = RK THEN Ok(JArr(acc2), n + 1)
            ELSE IF txt[n] = CM THEN ParseElements(txt, n + 1, acc2)
            ELSE Fail

\* JSON.parse(txt): one value, nothing but whitespace after it
JSONParse(txt) ==
    LET r == ParseValue(txt, 1) IN
    IF r.ok /\ SkipWS(txt, r.next) > Len(txt) THEN [ok |-> TRUE, val |-> r.val]
    ELSE [ok |-> FALSE, val |-> Undefined]

(***************************************************************************)
(* Error messages: an Error is modelled by its message, a sequence of      *)
(* message parts.  NoError is the absence of an error (undefined).         *)
(***************************************************************************)
NoError == <<>>

\* template literal with a prefix: `prefix: ${error.message}`
Wrap(prefix, msg) == <<prefix>> \o msg

(***************************************************************************)
(* Structural validators                                                   *)
(***************************************************************************)
ArrayFields == {"experience", "education", "projects"}
SkillTypes == {"technical", "soft", "languages", "certifications"}

\* variant: any truthy personalInfo will do, whatever its type
ValidateResumeStructureAnyPersonalInfo(resume) ==
    IF ~Truthy(resume) \/ ~TypeofObject(resume) THEN FALSE
    ELSE IF ~HasKey(resume, "personalInfo") THEN FALSE
    ELSE IF ~Truthy(Get(resume, "personalInfo")) THEN FALSE
    ELSE ~\E field \in ArrayFields :
             Truthy(Get(resume, field)) /\ ~IsArray(Get(resume, field))

\* AIHandler.validateResumeStructure
ValidateResumeStructure(resume) ==
    IF ~Truthy(resume) \/ ~TypeofObject(resume) THEN FALSE
    ELSE IF ~HasKey(resume, "personalInfo") THEN FALSE
    ELSE IF ~Truthy(Get(resume, "personalInfo"))
            \/ ~TypeofObject(Get(resume, "personalInfo")) THEN FALSE
    ELSE IF \E field \in ArrayFields :
               Truthy(Get(resume, field)) /\ ~IsArray(Get(resume, field))
         THEN FALSE
    ELSE LET skills == Get(resume, "skills") IN
         IF Truthy(skills)
         THEN IF TypeofObject(skills) /\ ~IsArray(skills)
              THEN ~\E skillType \in SkillTypes :
                       Truthy(Get(skills, skillType))
                       /\ ~IsArray(Get(skills, skillType))
              ELSE IsArray(skills)
         ELSE TRUE

\* AgenticAIHandler.validateResumeStructure (its result used as a condition)
AgenticValidateResumeStructure(resume) ==
    /\ Truthy(resume)
    /\ TypeofObject(resume)
    /\ Truthy(Get(resume, "personalInfo"))
    /\ TypeofObject(Get(resume, "personalInfo"))

(***************************************************************************)
(* HTTP responses                                                          *)
(***************************************************************************)
\* A parsed 2xx body: its error field, and what its candidates field holds:
\*   "absent"    no candidates field
\*   "empty"     candidates: []
\*   "nocontent" candidates[0] has no content
\*   "text"      candidates[0].content.parts[0].text = text
Body(error, candidates, text) ==
    [error |-> error, candidates |-> candidates, text |-> text]

ProviderError == JObj([message |-> JStr("blocked")])

\* the outcomes of one fetch:
\*   "network"  fetch rejects
\*   "notok"    response.ok is false; message is errorData.error?.message
\*   "badjson"  2xx, response.json() rejects
\*   "null"     2xx, the body is JSON null
\*   "prim"     2xx, the body is a JSON number
\*   "body"     2xx, the body is a JSON object
Outcome(kind, status, message, body) ==
    [kind |-> kind, status |-> status, message |-> message, body |-> body]

NoBody == Body(Undefined, "absent", <<>>)

NetworkFailure == Outcome("network", 0, "", NoBody)
NotOk(status, message) == Outcome("notok", status, message, NoBody)
BadJson == Outcome("badjson", 200, "", NoBody)
NullBody == Outcome("null", 200, "", NoBody)
PrimBody == Outcome("prim", 200, "", NoBody)
OkBody(body) == Outcome("body", 200, "", body)

\* the value callGeminiAPI returns: the parsed body
Data(outcome) == [kind |-> outcome.kind, body |-> outcome.body]
NoData == [kind |-> "none", body |-> NoBody]

\* if (!response.ok) throw new Error(`API request failed: ...`)
NotOkError(outcome) ==
    IF outcome.kind = "notok"
    THEN <<"API request failed:", ToString(outcome.status),
           IF outcome.message # "" THEN outcome.message ELSE "Unknown error">>
    ELSE NoError

\* variant: the error field counts whenever it is present, even when falsy
BodyErrorIfPresent(body) ==
    IF body.error # Undefined
    THEN <<"API error:",
           IF Get(body.error, "message").t = "str"
           THEN Get(body.error, "message").s
           ELSE "undefined">>
    ELSE NoError

\* if (data.error) throw new Error(`API error: ${data.error.message}`)
BodyError(body) ==
    IF Truthy(body.error)
    THEN <<"API error:",
           IF Get(body.error, "message").t = "str"
           THEN Get(body.error, "message").s
           ELSE "undefined">>
    ELSE NoError

\* variant: a 2xx body without an extractable payload counts as a failed
\* attempt
AttemptErrorCheckingPayload(outcome) ==
    CASE outcome.kind = "network" -> <<"Failed to fetch">>
      [] outcome.kind = "notok" -> NotOkError(outcome)
      [] outcome.kind = "badjson" -> <<"Unexpected token in JSON">>
      [] outcome.kind = "null" -> <<"Cannot read properties of null">>
      [] outcome.kind = "prim" -> <<"No response candidates">>
      [] BodyError(outcome.body) # NoError -> BodyError(outcome.body)
      [] outcome.body.candidates # "text" -> <<"No response candidates">>
      [] outcome.body.text \in {<<W("Sorry"), WS, W("no")>>,
                                <<LB, W("oops"), RB>>} -> <<"No valid JSON found">>
      [] OTHER -> NoError

\* One pass through the try block of callGeminiAPI for a settled fetch:
\* the error thrown inside it, or NoError when the body is returned.
AttemptError(outcome) ==
    CASE outcome.kind = "network" -> <<"Failed to fetch">>
      [] outcome.kind = "notok" -> NotOkError(outcome)
      [] outcome.kind = "badjson" -> <<"Unexpected token in JSON">>
      [] outcome.kind = "null" -> <<"Cannot read properties of null">>
      [] outcome.kind = "prim" -> NoError
      [] OTHER -> BodyError(outcome.body)

\* variant: only the first error is kept
NextLastErrorKeepFirst(lastError, error) ==
    IF lastError = NoError THEN error ELSE lastError

\* catch block: lastError = error
NextLastError(lastError, error) == error

\* variant: the next attempt follows the failed one without a delay
DelayBeforeRetryNever(attempt, retries) == FALSE

\* variant: a delay is awaited after the last attempt as well
DelayBeforeRetryAlways(attempt, retries) == attempt <= retries

\* catch block: if (attempt < this.maxRetries) await this.delay(...)
DelayBeforeRetry(attempt, retries) == attempt < retries

\* variant: the delay doubles with every failed attempt
BackoffDelayExponential(delay, attempt) == delay * 2 ^ (attempt - 1)

\* this.retryDelay * attempt
BackoffDelay(delay, attempt) == delay * attempt

\* variant: the loop runs one iteration too many
LoopContinuesOffByOne(attempt, retries) == attempt <= retries + 1

\* loop condition of for (attempt = 1; attempt <= this.maxRetries; attempt++)
LoopContinues(attempt, retries) == attempt <= retries

\* the throw after the loop
ExhaustedError(retries, lastError) ==
    <<"API call failed after", ToString(retries), "attempts. Last error:">>
        \o lastError

(***************************************************************************)
(* extractJSON of the stage agents (the same code in the three agents)     *)
(***************************************************************************)
\* textResponse.match(/\{[\s\S]*\}/): from the first opening brace that has
\* a closing brace after it to the last closing brace
BraceMatch(txt) ==
    LET opens == {i \in 1..Len(txt) : txt[i] = LB}
        closes == {i \in 1..Len(txt) : txt[i] = RB}
    IN IF \E i \in opens : \E j \in closes : i < j
       THEN LET first == CHOOSE i \in opens : \A i2 \in opens : i <= i2
                last == CHOOSE j \in closes : \A j2 \in closes : j2 <= j
            IN [found |-> TRUE, span |-> SubSeq(txt, first, last)]
       ELSE [found |-> FALSE, span |-> <<>>]

Extracted(v) == [ok |-> TRUE, val |-> v, error |-> NoError]
ExtractFailed(msg) == [ok |-> FALSE, val |-> Undefined, error |-> msg]

AgentExtractJSON(response) ==
    IF response.kind = "prim" \/ response.body.candidates \in {"absent", "empty"}
    THEN ExtractFailed(<<"No response candidates">>)
    ELSE IF response.body.candidates = "nocontent"
    THEN ExtractFailed(<<"Cannot read properties of undefined">>)
    ELSE LET txt == response.body.text
             direct == JSONParse(Trim(txt))
         IN IF direct.ok THEN Extracted(direct.val)
            ELSE LET jsonMatch == BraceMatch(txt) IN
                 IF jsonMatch.found
                 THEN LET parsed == JSONParse(jsonMatch.span) IN
                      IF parsed.ok THEN Extracted(parsed.val)
                      ELSE ExtractFailed(<<"Unexpected token in JSON">>)
                 ELSE ExtractFailed(<<"No valid JSON found">>)

(***************************************************************************)
(* AIHandler.parseAIResponse                                               *)
(***************************************************************************)
\* String.prototype.length of the text of a token
TokenLength(tok) ==
    CASE tok.k = "string" -> Len(tok.s) + 2
      [] tok = FENCE -> 3
      [] tok.k = "punct" -> 1
      [] tok.k = "ws" -> 1
      [] OTHER -> Len(tok.s)

\* String.prototype.length
RECURSIVE TextLength(_)
TextLength(txt) ==
    IF txt = <<>> THEN 0 ELSE TokenLength(Head(txt)) + TextLength(Tail(txt))

\* in the code block pattern: the position reached after the opening fence
\* at i, the optional json label and whitespace
CodeBlockOpen(txt, i) ==
    SkipWS(txt, IF i + 1 <= Len(txt) /\ txt[i + 1] = W("json")
                THEN i + 2 ELSE i + 1)

\* in the code block pattern: a closing brace at e that whitespace and a
\* fence follow
CodeBlockCloses(txt, e) ==
    /\ txt[e] = RB
    /\ SkipWS(txt, e + 1) <= Len(txt)
    /\ txt[SkipWS(txt, e + 1)] = FENCE

\* the fence at i starts a match of the code block pattern
CodeBlockStarts(txt, i) ==
    /\ txt[i] = FENCE
    /\ CodeBlockOpen(txt, i) <= Len(txt)
    /\ txt[CodeBlockOpen(txt, i)] = LB
    /\ \E e \in (CodeBlockOpen(txt, i) + 1)..Len(txt) : CodeBlockCloses(txt, e)

\* group 1 of the match from the fence at i: from the opening brace to the
\* nearest closing brace that a fence follows (lazy quantifier)
CodeBlockGroup(txt, i) ==
    SubSeq(txt, CodeBlockOpen(txt, i),
           CHOOSE e \in (CodeBlockOpen(txt, i) + 1)..Len(txt) :
              /\ CodeBlockCloses(txt, e)
              /\ \A e2 \in (CodeBlockOpen(txt, i) + 1)..(e - 1) :
                    ~CodeBlockCloses(txt, e2))

\* textResponse.match(/```(?:json)?\s*(\{[\s\S]*?\})\s*```/): the leftmost
\* match
CodeBlockMatch(txt) ==
    IF \E i \in 1..Len(txt) : CodeBlockStarts(txt, i)
    THEN [found |-> TRUE,
          span |-> CodeBlockGroup(txt,
                      CHOOSE i \in 1..Len(txt) :
                         /\ CodeBlockStarts(txt, i)
                         /\ \A i2 \in 1..(i - 1) : ~CodeBlockStarts(txt, i2))]
    ELSE [found |-> FALSE, span |-> <<>>]

\* In /\{[^{}]*(?:\{[^{}]*\}[^{}]*)*\}/ after an opening brace: the position
\* of the closing brace of the match, scanning from p at nesting depth 1 or
\* 2; 0 when the pattern does not match from that brace
RECURSIVE SpanEnd(_, _, _)
SpanEnd(txt, p, depth) ==
    IF p > Len(txt) THEN 0
    ELSE IF txt[p] = LB
         THEN IF depth = 1 THEN SpanEnd(txt, p + 1, 2) ELSE 0
    ELSE IF txt[p] = RB
         THEN IF depth = 2 THEN SpanEnd(txt, p + 1, 1) ELSE p
    ELSE SpanEnd(txt, p + 1, depth)

\* textResponse.match(/\{[^{}]*(?:\{[^{}]*\}[^{}]*)*\}/g), searching from i:
\* the matches from left to right, none overlapping another
RECURSIVE BraceMatches(_, _)
BraceMatches(txt, i) ==
    IF i > Len(txt) THEN <<>>
    ELSE IF txt[i] = LB /\ SpanEnd(txt, i + 1, 1) # 0
    THEN <<SubSeq(txt, i, SpanEnd(txt, i + 1, 1))>>
            \o BraceMatches(txt, SpanEnd(txt, i + 1, 1) + 1)
    ELSE BraceMatches(txt, i + 1)

\* match put into the sorted sequence: after every element that is not
\* shorter than it (Array.prototype.sort is stable)
RECURSIVE InsertByLength(_, _)
InsertByLength(sorted, match) ==
    IF sorted = <<>> THEN <<match>>
    ELSE IF TextLength(Head(sorted)) >= TextLength(match)
    THEN <<Head(sorted)>> \o InsertByLength(Tail(sorted), match)
    ELSE <<match>> \o sorted

\* braceMatches.sort((a, b) => b.length - a.length)
RECURSIVE SortByLength(_)
SortByLength(matches) ==
    IF matches = <<>> THEN <<>>
    ELSE InsertByLength(SortByLength(SubSeq(matches, 1, Len(matches) - 1)),
                        matches[Len(matches)])

\* the value of JSON.parse, or otherwise when it throws
ParsedOr(parsed, otherwise) == IF parsed.ok THEN parsed.val ELSE otherwise

\* Method 2: parsedResume after the code block attempt
FromCodeBlock(txt, codeBlockMatch) ==
    IF codeBlockMatch.found
    THEN ParsedOr(JSONParse(codeBlockMatch.span), Undefined)
    ELSE Undefined

\* Method 3: parsedResume after the pattern match attempt
FromPattern(txt, jsonMatch, parsedResume) ==
    IF Truthy(parsedResume) THEN parsedResume
    ELSE IF jsonMatch.found
    THEN ParsedOr(JSONParse(jsonMatch.span), parsedResume)
    ELSE parsedResume

\* one pass of the loop of Method 4 over matches[k]: parsed is the outcome
\* of JSON.parse(match); the value is <<parsedResume, break>>
TryMatch(parsed, parsedResume) ==
    IF ~parsed.ok THEN <<parsedResume, FALSE>>
    ELSE IF ValidateResumeStructure(parsed.val) THEN <<parsed.val, TRUE>>
    ELSE <<JNull, FALSE>>

\* the loop of Method 4 from matches[k] on; tried is the outcome of the
\* pass over matches[k - 1]
RECURSIVE LargestValid(_, _, _)
LargestValid(matches, k, tried) ==
    IF tried[2] \/ k > Len(matches) THEN tried[1]
    ELSE LargestValid(matches, k + 1,
                      TryMatch(JSONParse(matches[k]), tried[1]))

\* Method 4: parsedResume after the search among the brace matches
FromBraceMatches(txt, parsedResume) ==
    IF Truthy(parsedResume) THEN parsedResume
    ELSE LargestValid(SortByLength(BraceMatches(txt, 1)), 1,
                      <<parsedResume, FALSE>>)

\* what parseAIResponse returns or throws, before its catch block
Returned(v) == [ok |-> TRUE, val |-> v, error |-> NoError]
Threw(msg) == [ok |-> FALSE, val |-> Undefined, error |-> msg]

\* the catch block of the direct parse: Methods 2 to 4 and the throw when
\* none of them has set parsedResume
ExtractAfterDirectFailure(txt) ==
    FromBraceMatches(txt,
        FromPattern(txt, BraceMatch(txt),
            FromCodeBlock(txt, CodeBlockMatch(txt))))

\* // Validate the parsed resume
ValidateParsed(parsedResume) ==
    IF ValidateResumeStructure(parsedResume) THEN Returned(parsedResume)
    ELSE IF parsedResume \in {JNull, Undefined}
    THEN Threw(<<"Cannot convert undefined or null to object">>)
    ELSE IF Truthy(parsedResume) /\ TypeofObject(parsedResume)
            /\ Truthy(Get(parsedResume, "personalInfo"))
    THEN Returned(parsedResume)
    ELSE Threw(<<"Invalid resume structure returned by AI">>)

\* the try block from the direct parse on: direct is the outcome of
\* JSON.parse(textResponse.trim()), extracted the value of Methods 2 to 4
ParseText(direct, extracted) ==
    IF direct.ok THEN ValidateParsed(direct.val)
    ELSE IF ~Truthy(extracted)
    THEN Threw(<<"Could not extract valid JSON from AI response">>)
    ELSE ValidateParsed(extracted)

\* the try block of parseAIResponse
ParseAIResponseTry(response) ==
    IF response.kind = "prim"
       \/ response.body.candidates \in {"absent", "empty"}
    THEN Threw(<<"No response candidates from AI">>)
    ELSE IF response.body.candidates = "nocontent"
    THEN Threw(<<"Invalid response structure from AI">>)
    ELSE IF response.body.text = <<>>
    THEN Threw(<<"Empty text response from AI">>)
    ELSE ParseText(JSONParse(Trim(response.body.text)),
                   ExtractAfterDirectFailure(response.body.text))

\* catch (error) { throw new Error(`Failed to parse AI response: ...`) }
ParseAIResponseCatch(tried) ==
    IF tried.ok THEN tried
    ELSE Threw(Wrap("Failed to parse AI response:", tried.error))

ParseAIResponse(response) == ParseAIResponseCatch(ParseAIResponseTry(response))

\* the methods whose search parseAIResponse runs on a reply text, in order:
\* direct is the outcome of the direct parse, afterCodeBlock and afterPattern
\* are parsedResume after Methods 2 and 3
ParseAIResponseMethods(direct, afterCodeBlock, afterPattern) ==
    <<"direct">>
    \o (IF direct.ok THEN <<>>
        ELSE <<"fenced">>
             \o (IF Truthy(afterCodeBlock) THEN <<>> ELSE <<"span">>)
             \o (IF Truthy(afterPattern) THEN <<>> ELSE <<"balanced">>))

(***************************************************************************)
(* AgenticAIHandler.extractJSON and ResumeParser.parseAIParseResponse      *)
(***************************************************************************)
\* the catch block of the direct parse, the same in both: a code block that
\* is found is parsed and the outcome returned or thrown; the pattern match
\* is tried only when no code block is found
AfterDirectFailure(codeBlockMatch, jsonMatch, notFound) ==
    IF codeBlockMatch.found
    THEN LET parsed == JSONParse(codeBlockMatch.span) IN
         IF parsed.ok THEN Returned(parsed.val)
         ELSE Threw(<<"Unexpected token in JSON">>)
    ELSE IF jsonMatch.found
    THEN LET parsed == JSONParse(jsonMatch.span) IN
         IF parsed.ok THEN Returned(parsed.val)
         ELSE Threw(<<"Unexpected token in JSON">>)
    ELSE Threw(notFound)

\* the methods whose search they run on a reply text, in order
AfterDirectFailureMethods(direct, codeBlockMatch) ==
    <<"direct">>
    \o (IF direct.ok THEN <<>>
        ELSE <<"fenced">>
             \o (IF codeBlockMatch.found THEN <<>> ELSE <<"span">>))

\* the try block of AgenticAIHandler.extractJSON
HandlerExtractJSONTry(response, direct) ==
    IF response.kind = "prim"
       \/ response.body.candidates \in {"absent", "empty"}
    THEN Threw(<<"No response candidates">>)
    ELSE IF response.body.candidates = "nocontent"
    THEN Threw(<<"Cannot read properties of undefined">>)
    ELSE IF direct.ok THEN Returned(direct.val)
    ELSE AfterDirectFailure(CodeBlockMatch(response.body.text),
                            BraceMatch(response.body.text),
                            <<"No valid JSON found in response">>)

\* catch (error) { throw new Error(`Failed to extract JSON: ...`) }
HandlerExtractJSON(response, direct) ==
    LET tried == HandlerExtractJSONTry(response, direct) IN
    IF tried.ok THEN tried
    ELSE Threw(Wrap("Failed to extract JSON:", tried.error))

\* if (!parsedData.personalInfo) throw ...; return parsedData
CheckPersonalInfo(extracted) ==
    IF ~extracted.ok THEN extracted
    ELSE IF extracted.val \in {JNull, Undefined}
    THEN Threw(<<"Cannot read properties of null">>)
    ELSE IF Truthy(Get(extracted.val, "personalInfo")) THEN extracted
    ELSE Threw(<<"Invalid resume structure from AI">>)

\* the try block of ResumeParser.parseAIParseResponse
ParseAIParseResponseTry(response, direct) ==
    IF response.kind = "prim"
       \/ response.body.candidates \in {"absent", "empty"}
    THEN Threw(<<"No response from AI">>)
    ELSE IF response.body.candidates = "nocontent"
    THEN Threw(<<"Cannot read properties of undefined">>)
    ELSE CheckPersonalInfo(
            IF direct.ok THEN Returned(direct.val)
            ELSE AfterDirectFailure(CodeBlockMatch(response.body.text),
                                    BraceMatch(response.body.text),
                                    <<"No valid JSON found in AI response">>))

\* catch (error) { throw new Error(`AI parsing failed: ...`) }
ParseAIParseResponse(response, direct) ==
    LET tried == ParseAIParseResponseTry(response, direct) IN
    IF tried.ok THEN tried
    ELSE Threw(Wrap("AI parsing failed:", tried.error))

(***************************************************************************)
(* Stage agents                                                            *)
(***************************************************************************)
NumStages == 4
StageNames == <<"analyze", "strategy", "apply", "validate">>

\* the prompt of a model call: the values the template embeds
Prompt(name, job, industry, res, analysis, strategy) ==
    [stage |-> name, jobDescription |-> job, industryType |-> industry,
     resume |-> res, jobAnalysis |-> analysis, strategy |-> strategy]
NoPrompt == Prompt("none", "", "", Undefined, Undefined, Undefined)

\* what a stage has done when its callAPI is awaited: local progress events
\* and the prompt passed to callAPI
StageStarted(events, prompt) == [events |-> events, prompt |-> prompt]

\* what a stage has done when it settles: local progress events emitted
\* after the model call settled, and the record returned or the error thrown
StageReturned(events, val) ==
    [ok |-> TRUE, events |-> events, val |-> val, error |-> NoError]
StageThrew(events, msg) ==
    [ok |-> FALSE, events |-> events, val |-> Undefined, error |-> msg]

\* a settled callAPI: the data returned or the error thrown
CallReturned(data) == [ok |-> TRUE, data |-> data, error |-> NoError]
CallThrew(msg) == [ok |-> FALSE, data |-> NoData, error |-> msg]

\* JobAnalyzerAgent.analyzeJob up to await callAPI
analyzeJobStart(jobDescription, industryType) ==
    StageStarted(<<25, 50>>,
        Prompt("analyze", jobDescription, industryType,
               Undefined, Undefined, Undefined))

\* JobAnalyzerAgent.analyzeJob from the settled callAPI on; analysis is the
\* outcome of this.extractJSON(response)
analyzeJobFinish(call, analysis) ==
    IF ~call.ok THEN StageThrew(<<>>, Wrap("Job analysis failed:", call.error))
    ELSE IF analysis.ok THEN StageReturned(<<75, 100>>, analysis.val)
         ELSE StageThrew(<<75>>, Wrap("Job analysis failed:", analysis.error))

\* ResumeOptimizerAgent.createStrategy up to await callAPI
createStrategyStart(res, analysis) ==
    StageStarted(<<20, 60>>,
        Prompt("strategy", "", "", res, analysis, Undefined))

\* ResumeOptimizerAgent.createStrategy from the settled callAPI on; extracted
\* is the outcome of this.extractJSON(response)
createStrategyFinish(call, extracted) ==
    IF ~call.ok
    THEN StageThrew(<<>>, Wrap("Strategy creation failed:", call.error))
    ELSE IF extracted.ok THEN StageReturned(<<100>>, extracted.val)
         ELSE StageThrew(<<100>>,
                         Wrap("Strategy creation failed:", extracted.error))

\* ResumeOptimizerAgent.applyOptimizations up to await callAPI
applyOptimizationsStart(res, strategy) ==
    StageStarted(<<10, 50>>,
        Prompt("apply", "", "", res, Undefined, strategy))

\* ResumeOptimizerAgent.applyOptimizations from the settled callAPI on;
\* optimized is the outcome of this.extractJSON(response)
applyOptimizationsFinish(call, optimized) ==
    IF ~call.ok
    THEN StageThrew(<<>>, Wrap("Optimization application failed:", call.error))
    ELSE IF optimized.ok THEN StageReturned(<<80, 100>>, optimized.val)
         ELSE StageThrew(<<80>>,
                  Wrap("Optimization application failed:", optimized.error))

\* QualityValidatorAgent.validateAndRefine up to await callAPI
validateAndRefineStart(res, analysis, strategy) ==
    StageStarted(<<25, 60>>,
        Prompt("validate", "", "", res, analysis, strategy))

\* QualityValidatorAgent.validateAndRefine from the settled callAPI on;
\* refined is the outcome of this.extractJSON(response)
validateAndRefineFinish(call, refined) ==
    IF ~call.ok
    THEN StageThrew(<<>>, Wrap("Quality validation failed:", call.error))
    ELSE IF refined.ok THEN StageReturned(<<90, 100>>, refined.val)
         ELSE StageThrew(<<90>>,
                         Wrap("Quality validation failed:", refined.error))

\* AIHandler.customizeResume up to await this.callGeminiAPI: the error it
\* throws for its arguments, or none
CustomizeResumeStart(res, jobDescription, apiKey) ==
    IF ~Truthy(apiKey) THEN <<"API key is required">>
    ELSE IF ~Truthy(res) \/ jobDescription = ""
    THEN <<"Resume and job description are required">>
    ELSE NoError

\* AIHandler.customizeResume from the settled callGeminiAPI on
CustomizeResumeFinish(call) ==
    IF ~call.ok
    THEN StageThrew(<<>>, Wrap("AI customization failed:", call.error))
    ELSE LET parsed == ParseAIResponse(call.data) IN
         IF parsed.ok THEN StageReturned(<<75, 100>>, parsed.val)
         ELSE StageThrew(<<75>>,
                         Wrap("AI customization failed:", parsed.error))

(***************************************************************************)
(* Progress: percentages are kept in hundredths of a percent               *)
(***************************************************************************)
Pct(n) == n * 100

\* variant: every stage is given the weight of the apply stage
StageProgressSameWeight(k, local) ==
    CASE k = 1 -> Pct(5) + local * 30
      [] k = 2 -> Pct(20) + local * 30
      [] k = 3 -> Pct(40) + local * 30
      [] OTHER -> Pct(70) + local * 30

\* variant: the local percentage of a stage is passed on as it is
StageProgressUnscaled(k, local) == Pct(local)

\* the progress callbacks customizeResumeWithAgents hands to the stages
\*   5 + progress * 0.15, 20 + progress * 0.20,
\*   40 + progress * 0.30, 70 + progress * 0.20
StageProgress(k, local) ==
    CASE k = 1 -> Pct(5) + local * 15
      [] k = 2 -> Pct(20) + local * 20
      [] k = 3 -> Pct(40) + local * 30
      [] OTHER -> Pct(70) + local * 20

\* the event customizeResumeWithAgents emits itself before stage k
PhaseProgress(k) ==
    CASE k = 1 -> Pct(5)
      [] k = 2 -> Pct(20)
      [] k = 3 -> Pct(40)
      [] OTHER -> Pct(70)

Scaled(k, events) == [i \in 1..Len(events) |-> StageProgress(k, events[i])]

\* who emitted the events: the callback of stage k (0: the orchestrator)
Emitters(k, events) == [i \in 1..Len(events) |-> k]

(***************************************************************************)
(* customizeResumeWithAgents                                               *)
(***************************************************************************)
\* the local constants of a run
Locals(analysis, strategy, optimized, final) ==
    [jobAnalysis |-> analysis, optimizationStrategy |-> strategy,
     optimizedResume |-> optimized, finalResume |-> final]

\* variant: the validate stage is handed the input resume instead of the
\* candidate of the apply stage
StageStartValidatingInput(k, res, job, industry, L) ==
    CASE k = 1 -> analyzeJobStart(job, industry)
      [] k = 2 -> createStrategyStart(res, L.jobAnalysis)
      [] k = 3 -> applyOptimizationsStart(res, L.optimizationStrategy)
      [] OTHER -> validateAndRefineStart(res, L.jobAnalysis,
                                         L.optimizationStrategy)

\* the part of stage k that runs before its callAPI is awaited
StageStart(k, res, job, industry, L) ==
    CASE k = 1 -> analyzeJobStart(job, industry)
      [] k = 2 -> createStrategyStart(res, L.jobAnalysis)
      [] k = 3 -> applyOptimizationsStart(res, L.optimizationStrategy)
      [] OTHER -> validateAndRefineStart(L.optimizedResume, L.jobAnalysis,
                                         L.optimizationStrategy)

\* the part of stage k that runs once its callAPI has settled, extracted
\* being the outcome of extractJSON on the data the call returned
StageContinue(k, call, extracted) ==
    CASE k = 1 -> analyzeJobFinish(call, extracted)
      [] k = 2 -> createStrategyFinish(call, extracted)
      [] k = 3 -> applyOptimizationsFinish(call, extracted)
      [] OTHER -> validateAndRefineFinish(call, extracted)

\* the part of stage k that runs once its callAPI has settled
StageFinish(k, call) == StageContinue(k, call, AgentExtractJSON(call.data))

\* const jobAnalysis = await ..., const optimizationStrategy = await ..., ...
Store(k, L, val) ==
    CASE k = 1 -> [L EXCEPT !.jobAnalysis = val]
      [] k = 2 -> [L EXCEPT !.optimizationStrategy = val]
      [] k = 3 -> [L EXCEPT !.optimizedResume = val]
      [] OTHER -> [L EXCEPT !.finalResume = val]

\* variant: a rejected stage does not stop the sequence
NextStepIgnoringFailure(k, ok) ==
    IF k < NumStages THEN "stage" ELSE "finalize"

\* where control goes when the await of stage k settles: a rejection goes
\* to the catch block, a value to the next statement
NextStep(k, ok) ==
    IF ~ok THEN "catch"
    ELSE IF k < NumStages THEN "stage"
    ELSE "finalize"

\* variant: the catch block hands back the input resume
OrchestratorCatchReturningInput(error, res) ==
    [outcome |-> "returned", error |-> NoError, result |-> res]

\* variant: the catch block throws without the message of what it caught
OrchestratorCatchDroppingCause(error, res) ==
    [outcome |-> "thrown",
     error |-> <<"Agentic customization failed">>,
     result |-> Undefined]

\* catch (error) { throw new Error(`Agentic customization failed: ...`) }
OrchestratorCatch(error, res) ==
    [outcome |-> "thrown",
     error |-> Wrap("Agentic customization failed:", error),
     result |-> Undefined]

\* if (!this.validateResumeStructure(finalResume)) throw ...
FinalCheckError(final) ==
    IF ~AgenticValidateResumeStructure(final)
    THEN <<"Final resume validation failed">>
    ELSE NoError

\* variant: the closing progress event is missing
CompletionEventsMissing == <<>>

\* progressCallback(100, ...) before return finalResume
CompletionEvents == <<Pct(100)>>

(***************************************************************************)
(* Inputs                                                                  *)
(***************************************************************************)
DefaultMaxRetries == 3
DefaultRetryDelay == 1000

JobDescription == "Needs X and Y"
IndustryType == "software-engineering"

ResumeAText ==
    <<LB, S("personalInfo"), CL, LB, S("name"), CL, S("Ann"), RB, CM,
      S("skills"), CL, LB, S("technical"), CL, LK, S("X"), RK, RB, RB>>
ResumeBText ==
    <<LB, S("personalInfo"), CL, LB, RB, CM,
      S("experience"), CL, LK, RK, RB>>
\* personalInfo present, experience a string
BadExperienceText ==
    <<LB, S("personalInfo"), CL, LB, RB, CM,
      S("experience"), CL, S("x"), RB>>
\* personalInfo a string
BadPersonalInfoText == <<LB, S("personalInfo"), CL, S("Ann"), RB>>

AnalysisText ==
    <<LB, S("mustHaveSkills"), CL, LK, S("X"), CM, S("Y"), RK, CM,
      S("experienceLevel"), CL, S("senior"), RB>>
StrategyText == <<LB, S("skillsToEmphasize"), CL, LK, S("X"), RK, RB>>

InProse(txt) == <<W("Here"), WS>> \o txt \o <<WS, W("done")>>
ProseOnly == <<W("Sorry"), WS, W("no")>>
BrokenSpan == <<LB, W("oops"), RB>>

Resumes == {JSONParse(ResumeAText).val, JSONParse(ResumeBText).val}

\* the reply texts the stubbed model may give at stage k (0: a direct call)
Texts(k) ==
    CASE k = 0 -> {AnalysisText}
      [] k = 1 -> {AnalysisText, InProse(AnalysisText), <<LitNull>>,
                   ProseOnly, BrokenSpan}
      [] k = 2 -> {StrategyText, <<Lit1>>, ProseOnly}
      [] k = 3 -> {ResumeAText, ResumeBText, BadExperienceText,
                   <<LB, RB>>, <<LitNull>>, ProseOnly}
      [] OTHER -> {ResumeAText, InProse(ResumeBText), BadExperienceText,
                   BadPersonalInfoText, <<LB, RB>>, ProseOnly}

\* the 2xx responses whose body is a JSON object
OkBodies(k) ==
    {OkBody(Body(Undefined, "text", txt)) : txt \in Texts(k)}
    \cup {OkBody(Body(Undefined, c, <<>>)) : c \in {"absent", "empty",
                                                   "nocontent"}}
    \cup {OkBody(Body(JNull, "absent", <<>>)),
          OkBody(Body(ProviderError, "absent", <<>>))}

NotOkResponses == {NotOk(429, "quota"), NotOk(500, "")}

\* the 2xx responses
OkResponses(k) == OkBodies(k) \cup {BadJson, NullBody, PrimBody}

\* the members of an object in JSON.stringify(v, null, 2), keys drawn from
\* the set keys (the model of an object keeps no key order)
RECURSIVE Stringify(_)
RECURSIVE StringifyMembers(_, _)
RECURSIVE StringifyElements(_, _)

StringifyMembers(o, keys) ==
    LET key == CHOOSE k \in keys : TRUE IN
    <<S(key), CL, WS>> \o Stringify(o[key])
       \o (IF keys = {key} THEN <<>>
           ELSE <<CM, WS>> \o StringifyMembers(o, keys \ {key}))

\* the elements of an array from index i on
StringifyElements(a, i) ==
    Stringify(a[i])
       \o (IF i = Len(a) THEN <<>>
           ELSE <<CM, WS>> \o StringifyElements(a, i + 1))

\* variant: the elements of arrays are left out
StringifyDroppingElements(v) ==
    CASE v.t = "undefined" -> <<W("undefined")>>
      [] v.t = "null" -> <<LitNull>>
      [] v.t = "bool" -> IF v.b THEN <<LitTrue>> ELSE <<LitFalse>>
      [] v.t = "num" -> IF v.n = 0 THEN <<Lit0>> ELSE <<Lit1>>
      [] v.t = "str" -> <<S(v.s)>>
      [] v.t = "arr" -> <<LK, RK>>
      [] OTHER ->
           IF DOMAIN v.o = {} THEN <<LB, RB>>
           ELSE <<LB, WS>> \o StringifyMembers(v.o, DOMAIN v.o) \o <<WS, RB>>

\* JSON.stringify(v, null, 2) inside a template literal
Stringify(v) ==
    CASE v.t = "undefined" -> <<W("undefined")>>
      [] v.t = "null" -> <<LitNull>>
      [] v.t = "bool" -> IF v.b THEN <<LitTrue>> ELSE <<LitFalse>>
      [] v.t = "num" -> IF v.n = 0 THEN <<Lit0>> ELSE <<Lit1>>
      [] v.t = "str" -> <<S(v.s)>>
      [] v.t = "arr" ->
           IF v.a = <<>> THEN <<LK, RK>>
           ELSE <<LK, WS>> \o StringifyElements(v.a, 1) \o <<WS, RK>>
      [] OTHER ->
           IF DOMAIN v.o = {} THEN <<LB, RB>>
           ELSE <<LB, WS>> \o StringifyMembers(v.o, DOMAIN v.o) \o <<WS, RB>>

\* the stages whose prompt asks for the resume back
ResumeStages == {"apply", "validate"}

\* a model that answers an apply or validate prompt with the resume of the
\* prompt, unchanged
EchoResponses(prompt) ==
    IF prompt.stage \in ResumeStages
    THEN {OkBody(Body(Undefined, "text", Stringify(prompt.resume)))}
    ELSE {}

\* the data is such an answer to the prompt
IsEcho(data, prompt) ==
    /\ prompt.stage \in ResumeStages
    /\ data.kind = "body"
    /\ data.body.candidates = "text"
    /\ data.body.text = Stringify(prompt.resume)

(***************************************************************************)
(* State                                                                   *)
(***************************************************************************)
VARIABLES
    maxRetries,       \* this.maxRetries of the handler in use
    retryDelay,       \* this.retryDelay of the handler in use
    entry,            \* the method that was called: "none" before the call
    pc,               \* "idle", "fetch" (awaiting fetch), "delay" (awaiting
                      \* the backoff timer), "returned", "thrown"
    stage,            \* the stage whose callAPI is running; 0 in a direct call
    attempt,          \* loop variable of callGeminiAPI
    lastError,        \* lastError of callGeminiAPI
    request,          \* the prompt of the running callGeminiAPI
    resume,           \* the resume argument of customizeResumeWithAgents
    locals,           \* jobAnalysis, optimizationStrategy, optimizedResume,
                      \* finalResume of customizeResumeWithAgents
    returnedData,     \* the value the last settled callGeminiAPI returned
    result,           \* the record customizeResumeWithAgents returned
    thrown,           \* the error the called method threw
    progress,         \* the percentages passed to progressCallback, in order
    progressStage,    \* observation: who emitted each of them: the stage
                      \* whose callback it went through, 0 for
                      \* customizeResumeWithAgents itself
    echoed,           \* observation: the stages whose reply text was the
                      \* serialization of the resume in their prompt
    requests,         \* observation: fetches issued by the running call
    delays,           \* observation: delays awaited by the running call
    lastResponse,     \* observation: the fetch outcome that settled last
    firstAttemptError, \* observation: error of attempt 1 of the running call
    lastAttemptError, \* observation: error of its latest failed attempt
    lastAttemptFailed, \* observation: the attempt that settled last went
                      \* to the catch block
    failedStage,      \* observation: the stage that failed (5: final check)
    stageError,       \* observation: the error that stage threw
    completedStages,  \* observation: stages that returned a record
    stagesCalled,     \* observation: stages invoked, in order
    unit,             \* a direct call of a validator or of an extractor:
                      \* its argument and what it returned or threw
    parked,           \* the frame of the other run of
                      \* customizeResumeWithAgents on the same handler,
                      \* suspended at an await while this one executes
    active,           \* which of the two runs the variables above hold
    app,              \* the ResumeCustomizerApp of the page: its fields,
                      \* the form and the editor it reads, what it showed
    tally,            \* observation: when on, the fetches and timers of
                      \* this run that have not settled yet, and how many
                      \* fetches it has issued and delays it has started
    alone             \* observation: when on, where this run would stand
                      \* had the events that resumed it (its call, each
                      \* settled fetch, each timer) reached it with no
                      \* other run on the handler

cfgVars == <<maxRetries, retryDelay, resume>>
callVars == <<pc, attempt, lastError, requests, delays>>
errVars == <<firstAttemptError, lastAttemptError>>
runVars == <<stage, request, locals, returnedData, result, thrown, progress,
             failedStage, stageError, completedStages, stagesCalled,
             progressStage, echoed>>
obsVars == <<lastResponse, lastAttemptFailed>>
auxVars == <<unit, parked, active, app>>
vars == <<cfgVars, entry, callVars, errVars, runVars, obsVars, auxVars,
          alone, tally>>

NoOutcome == Outcome("none", 0, "", NoBody)
NoLocals == Locals(Undefined, Undefined, Undefined, Undefined)
FinalCheck == NumStages + 1
NoUnit == [op |-> "none"]
NoFrame == [pc |-> "none"]
NoTally ==
    [on |-> FALSE, requests |-> 0, delays |-> 0, fetches |-> {},
     timers |-> {}]

(***************************************************************************)
(* ResumeCustomizerApp: the values it holds                                *)
(***************************************************************************)
\* a field that holds null
NoObject == [ref |-> 0, val |-> JNull]

\* the value val as the object (or the primitive: ref 0) held in a field
Held(ref, val) ==
    [ref |-> IF val.t \in {"arr", "obj"} THEN ref ELSE 0, val |-> val]

\* a === b
StrictEquals(a, b) ==
    IF a.ref # 0 \/ b.ref # 0 THEN a.ref = b.ref ELSE a.val = b.val

\* the identity of a newly created object: one that no object in used has
FreshRef(used) ==
    CHOOSE n \in 1..(Cardinality(used) + 1) :
       /\ n \notin used
       /\ \A m \in 1..(n - 1) : m \in used

\* variant: the copy of a record keeps its personal information only
DeepCopyOfPersonalInfo(v) ==
    IF v.t = "obj"
    THEN JObj([k \in (DOMAIN v.o) \cap {"personalInfo"} |-> v.o[k]])
    ELSE v

\* JSON.parse(JSON.stringify(v))
DeepCopy(v) == JSONParse(Stringify(v)).val

\* list && list.length > 0
HasItems(list) ==
    CASE list.t = "str" -> list.s # ""
      [] list.t = "arr" -> list.a # <<>>
      [] list.t = "obj" -> /\ Get(list, "length").t = "num"
                           /\ Get(list, "length").n > 0
      [] OTHER -> FALSE

\* v is null or undefined
Nullish(v) == v.t \in {"null", "undefined"}

\* the callback of the forEach of a section throws on item: it reads
\* exp.title and calls exp.achievements?.map, reads edu.degree, reads
\* project.name and calls project.technologies.map when that has items;
\* a skill is only interpolated
ItemThrows(section, item) ==
    CASE section = "experience" ->
           \/ Nullish(item)
           \/ /\ ~Nullish(Get(item, "achievements"))
              /\ ~IsArray(Get(item, "achievements"))
      [] section = "education" -> Nullish(item)
      [] section = "projects" ->
           \/ Nullish(item)
           \/ /\ HasItems(Get(item, "technologies"))
              /\ ~IsArray(Get(item, "technologies"))
      [] OTHER -> FALSE

\* if (list && list.length > 0) list.forEach(item => ...) throws: list has
\* no forEach, or the callback throws on one of its items
ForEachThrows(list, section) ==
    /\ HasItems(list)
    /\ \/ ~IsArray(list)
       \/ \E i \in 1..Len(list.a) : ItemThrows(section, list.a[i])

\* variant: the preview is built whatever the record holds
GenerateResumePreviewHTMLNeverThrows(res) == FALSE

\* generateResumePreviewHTML(res) throws a TypeError
GenerateResumePreviewHTMLThrows(res) ==
    \/ ForEachThrows(Get(res, "experience"), "experience")
    \/ ForEachThrows(Get(res, "education"), "education")
    \/ /\ Truthy(Get(res, "skills"))
       /\ \/ ForEachThrows(Get(Get(res, "skills"), "technical"), "skills")
          \/ ForEachThrows(Get(Get(res, "skills"), "soft"), "skills")
    \/ ForEachThrows(Get(res, "projects"), "projects")

\* the app after its constructor, with no key in localStorage
NewApp ==
    [apiKey |-> JNull,
     jobDescription |-> <<>>,      \* value of the jobDescription textarea
     currentResume |-> NoObject,
     originalResume |-> NoObject,
     customizedResume |-> NoObject,
     isCustomizing |-> FALSE,
     monacoEditor |-> FALSE,       \* the editor has been created
     editorSection |-> FALSE,      \* the editor section is displayed
     progressModal |-> FALSE,      \* the progress modal is displayed
     said |-> "",                  \* the message that startCustomization
                                   \* or resetResume showed or logged last
     warning |-> FALSE,            \* the timer of the fallback warning is set
     inFlight |-> 0,               \* observation: runs of the pipeline that
                                   \* startCustomization awaits
     fellBack |-> FALSE,           \* observation: the latest run that ended
                                   \* installed the fallback of its catch
     parsed |-> Undefined,         \* observation: the record parsed at the
                                   \* latest upload
     basis |-> Undefined]          \* observation, kept under OverlapSpec
                                   \* only: what originalResume held when
                                   \* the awaited run was started

\* the events that resume a suspended run
Called == [kind |-> "call", outcome |-> NoOutcome]
Fetched(outcome) == [kind |-> "fetch", outcome |-> outcome]
TimerFired == [kind |-> "timer", outcome |-> NoOutcome]

\* where a run stands: its position, its stage inputs, its retry counters,
\* its progress events and its result
Observed(f) ==
    [pc |-> f.pc, stage |-> f.stage, request |-> f.request,
     locals |-> f.locals, attempt |-> f.attempt, lastError |-> f.lastError,
     requests |-> f.requests, delays |-> f.delays, progress |-> f.progress,
     result |-> f.result, thrown |-> f.thrown]

\* a run on its own before it is called, and at its first fetch
AloneNotCalled ==
    [pc |-> "idle", stage |-> 0, request |-> NoPrompt, locals |-> NoLocals,
     attempt |-> 0, lastError |-> NoError, requests |-> 0, delays |-> <<>>,
     progress |-> <<>>, result |-> Undefined, thrown |-> NoError]
AloneCalled(res) ==
    LET start == StageStart(1, res, JobDescription, IndustryType, NoLocals)
    IN [AloneNotCalled EXCEPT
           !.pc = "fetch", !.stage = 1, !.request = start.prompt,
           !.attempt = 1, !.requests = 1,
           !.progress = <<PhaseProgress(1)>> \o Scaled(1, start.events)]

\* a run on its own, standing at r, when its awaited stage settles as sr
AloneStageSettles(r, res, sr, le) ==
    LET L2 == IF sr.ok THEN Store(r.stage, r.locals, sr.val) ELSE r.locals
        step == NextStep(r.stage, sr.ok)
        emitted == r.progress \o Scaled(r.stage, sr.events)
    IN CASE step = "stage" ->
              LET start == StageStart(r.stage + 1, res, JobDescription,
                                      IndustryType, L2)
              IN [r EXCEPT
                     !.pc = "fetch", !.stage = r.stage + 1,
                     !.request = start.prompt, !.locals = L2,
                     !.attempt = 1, !.lastError = NoError, !.requests = 1,
                     !.delays = <<>>,
                     !.progress = emitted \o <<PhaseProgress(r.stage + 1)>>
                                    \o Scaled(r.stage + 1, start.events)]
         [] step = "finalize" ->
              LET finalError == FinalCheckError(L2.finalResume)
                  c == OrchestratorCatch(finalError, res)
              IN IF finalError # NoError
                 THEN [r EXCEPT !.pc = c.outcome, !.result = c.result,
                                !.thrown = c.error, !.locals = L2,
                                !.lastError = le,
                                !.progress = emitted \o <<Pct(90)>>]
                 ELSE [r EXCEPT !.pc = "returned",
                                !.result = L2.finalResume, !.locals = L2,
                                !.lastError = le,
                                !.progress = emitted \o <<Pct(90)>>
                                               \o CompletionEvents]
         [] OTHER ->
              LET c == OrchestratorCatch(sr.error, res)
              IN [r EXCEPT !.pc = c.outcome, !.result = c.result,
                           !.thrown = c.error, !.locals = L2,
                           !.lastError = le, !.progress = emitted]

\* a run on its own at the loop test after a failed attempt
AloneNextIteration(r, res, le) ==
    IF LoopContinues(r.attempt + 1, maxRetries)
    THEN [r EXCEPT !.pc = "fetch", !.attempt = r.attempt + 1,
                   !.requests = r.requests + 1, !.lastError = le]
    ELSE AloneStageSettles(r, res,
             StageFinish(r.stage,
                         CallThrew(ExhaustedError(maxRetries, le))), le)

\* a run on its own, standing at r, resumed by event
AloneResumed(r, res, event) ==
    CASE event.kind = "call" -> AloneCalled(res)
      [] event.kind = "timer" -> AloneNextIteration(r, res, r.lastError)
      [] OTHER ->
           LET error == AttemptError(event.outcome) IN
           IF error = NoError
           THEN AloneStageSettles(r, res,
                    StageFinish(r.stage, CallReturned(Data(event.outcome))),
                    r.lastError)
           ELSE LET le == NextLastError(r.lastError, error) IN
                IF DelayBeforeRetry(r.attempt, maxRetries)
                THEN [r EXCEPT !.pc = "delay", !.lastError = le,
                               !.delays = Append(r.delays,
                                   BackoffDelay(retryDelay, r.attempt))]
                ELSE AloneNextIteration(r, res, le)

NoShadow == [on |-> FALSE, at |-> AloneNotCalled]

\* the run was resumed by event: so is the run on its own
Shadowed(event) ==
    alone' = IF alone.on
             THEN [alone EXCEPT !.at = AloneResumed(alone.at, resume, event)]
             ELSE alone

\* no call of callGeminiAPI or customizeResumeWithAgents has been made
NoCallYet ==
    /\ entry = "none"
    /\ pc = "idle"
    /\ stage = 0
    /\ attempt = 0
    /\ lastError = NoError
    /\ request = NoPrompt
    /\ locals = NoLocals
    /\ returnedData = NoData
    /\ result = Undefined
    /\ thrown = NoError
    /\ progress = <<>>
    /\ progressStage = <<>>
    /\ echoed = {}
    /\ requests = 0
    /\ delays = <<>>
    /\ lastResponse = [stage |-> 0, attempt |-> 0, outcome |-> NoOutcome]
    /\ firstAttemptError = NoError
    /\ lastAttemptError = NoError
    /\ lastAttemptFailed = FALSE
    /\ failedStage = 0
    /\ stageError = NoError
    /\ completedStages = 0
    /\ stagesCalled = <<>>

Init ==
    /\ maxRetries \in {DefaultMaxRetries} \cup 1..MaxRetriesBound
    /\ retryDelay = DefaultRetryDelay
    /\ resume \in Resumes
    /\ unit = NoUnit
    /\ parked = NoFrame
    /\ active = 1
    /\ app = NewApp
    /\ alone = NoShadow
    /\ tally = NoTally
    /\ NoCallYet

(***************************************************************************)
(* callGeminiAPI                                                           *)
(***************************************************************************)
\* the fetch or the timer the run was awaiting has settled
Woken(t) ==
    CASE pc = "fetch" -> [t EXCEPT !.fetches = @ \ {<<stage, attempt>>}]
      [] pc = "delay" -> [t EXCEPT !.timers = @ \ {<<stage, attempt>>}]
      [] OTHER -> t

\* fetch(...) is called for attempt a of the call of stage k
FetchIssued(t, k, a) ==
    [t EXCEPT !.requests = @ + 1, !.fetches = @ \cup {<<k, a>>}]

\* this.delay(...) is called after attempt a of the call of stage k
TimerSet(t, k, a) ==
    [t EXCEPT !.delays = @ + 1, !.timers = @ \cup {<<k, a>>}]

Tally(new) == tally' = IF tally.on THEN new ELSE tally

\* entry of callGeminiAPI up to the first await fetch
IssueCall ==
    /\ Tally(FetchIssued(Woken(tally), stage', 1))
    /\ pc' = "fetch"
    /\ attempt' = 1
    /\ lastError' = NoError
    /\ requests' = 1
    /\ delays' = <<>>
    /\ firstAttemptError' = NoError
    /\ lastAttemptError' = NoError

\* lastError and the observed errors of the running call
CallEnds(le, fe, lae) ==
    /\ lastError' = le
    /\ firstAttemptError' = fe
    /\ lastAttemptError' = lae

\* a direct call of callGeminiAPI on AIHandler or on AgenticAIHandler
CallGeminiAPI(handler) ==
    /\ pc = "idle"
    /\ entry' = handler
    /\ request' = Prompt("direct", JobDescription, IndustryType,
                         Undefined, Undefined, Undefined)
    /\ UNCHANGED <<cfgVars, stage, locals, returnedData, result, thrown,
                   progress, failedStage, stageError, completedStages,
                   stagesCalled, progressStage, echoed, obsVars, auxVars,
                   alone>>
    /\ IssueCall

\* the percentages AIHandler.customizeResume passes to its callback
Unscaled(events) == [i \in 1..Len(events) |-> Pct(events[i])]

\* a call of AIHandler.customizeResume, with or without a key, up to its
\* await of callGeminiAPI or to its throw
CustomizeResume ==
    /\ pc = "idle"
    /\ entry' = "AIHandler.customizeResume"
    /\ \E apiKey \in {JStr(""), JStr("AIza")} :
          LET error == CustomizeResumeStart(resume, JobDescription, apiKey)
          IN IF error # NoError
             THEN /\ pc' = "thrown"
                  /\ thrown' = Wrap("AI customization failed:", error)
                  /\ UNCHANGED <<attempt, lastError, requests, delays,
                                 errVars, stage, request, progress,
                                 progressStage, tally>>
             ELSE /\ progress' = Unscaled(<<25, 50>>)
                  /\ progressStage' = <<0, 0>>
                  /\ request' = Prompt("customize", JobDescription,
                                       IndustryType, resume, Undefined,
                                       Undefined)
                  /\ stage' = 0
                  /\ IssueCall
                  /\ UNCHANGED thrown
    /\ UNCHANGED <<cfgVars, locals, returnedData, result, failedStage,
                   stageError, completedStages, stagesCalled, echoed,
                   obsVars, auxVars, alone>>

\* customizeResumeWithAgents(res, ...) up to the first await fetch of
\* analyzeJob
RunStarts(res) ==
    /\ entry' = "customizeResumeWithAgents"
    /\ LET start == StageStart(1, res, JobDescription, IndustryType, locals)
       IN /\ progress' = <<PhaseProgress(1)>> \o Scaled(1, start.events)
          /\ progressStage' = <<0>> \o Emitters(1, start.events)
          /\ request' = start.prompt
    /\ stage' = 1
    /\ stagesCalled' = <<1>>
    /\ IssueCall
    /\ UNCHANGED <<locals, returnedData, result, thrown, failedStage,
                   stageError, completedStages, echoed, obsVars>>
    /\ Shadowed(Called)

\* a call of customizeResumeWithAgents on the resume at hand
CustomizeResumeWithAgents ==
    /\ pc = "idle"
    /\ RunStarts(resume)
    /\ UNCHANGED <<cfgVars, auxVars>>

\* the direct caller receives the settled call
DirectCallSettles(call, le, fe, lae) ==
    /\ CallEnds(le, fe, lae)
    /\ pc' = IF call.ok THEN "returned" ELSE "thrown"
    /\ returnedData' = IF call.ok THEN call.data ELSE returnedData
    /\ thrown' = call.error
    /\ Tally(Woken(tally))
    /\ UNCHANGED <<attempt, requests, delays, stage, request, locals, result,
                   progress, failedStage, stageError, completedStages,
                   stagesCalled, progressStage, echoed>>

\* AIHandler.customizeResume settles as finish
CustomizeResumeEnds(finish, call, le, fe, lae) ==
    /\ CallEnds(le, fe, lae)
    /\ pc' = IF finish.ok THEN "returned" ELSE "thrown"
    /\ returnedData' = IF call.ok THEN call.data ELSE returnedData
    /\ result' = finish.val
    /\ thrown' = finish.error
    /\ progress' = progress \o Unscaled(finish.events)
    /\ progressStage' = progressStage \o Emitters(0, finish.events)
    /\ Tally(Woken(tally))
    /\ UNCHANGED <<attempt, requests, delays, stage, request, locals,
                   failedStage, stageError, completedStages, stagesCalled,
                   echoed>>

\* the awaiting customizeResume receives the settled call
CustomizeResumeSettles(call, le, fe, lae) ==
    CustomizeResumeEnds(CustomizeResumeFinish(call), call, le, fe, lae)

\* the awaited stage has settled as sr: customizeResumeWithAgents runs on to
\* its next await, its return or its throw
StageSettles(sr, call, le, fe, lae) ==
    LET L2 == IF sr.ok THEN Store(stage, locals, sr.val) ELSE locals
        step == NextStep(stage, sr.ok)
        emitted == progress \o Scaled(stage, sr.events)
        emittedBy == progressStage \o Emitters(stage, sr.events)
        failed1 == IF ~sr.ok /\ failedStage = 0 THEN stage ELSE failedStage
        error1 == IF ~sr.ok /\ failedStage = 0 THEN sr.error ELSE stageError
    IN
    /\ returnedData' = IF call.ok THEN call.data ELSE returnedData
    /\ locals' = L2
    /\ completedStages' = completedStages + (IF sr.ok THEN 1 ELSE 0)
    /\ echoed' = IF call.ok /\ IsEcho(call.data, request)
                 THEN echoed \cup {stage} ELSE echoed
    /\ CASE step = "stage" ->
              LET start == StageStart(stage + 1, resume, JobDescription,
                                      IndustryType, L2)
              IN /\ stage' = stage + 1
                 /\ stagesCalled' = Append(stagesCalled, stage + 1)
                 /\ progress' = emitted \o <<PhaseProgress(stage + 1)>>
                                        \o Scaled(stage + 1, start.events)
                 /\ progressStage' = emittedBy \o <<0>>
                                        \o Emitters(stage + 1, start.events)
                 /\ request' = start.prompt
                 /\ IssueCall
                 /\ failedStage' = failed1
                 /\ stageError' = error1
                 /\ UNCHANGED <<result, thrown>>
         [] step = "finalize" ->
              LET finalError == FinalCheckError(L2.finalResume)
                  c == OrchestratorCatch(finalError, resume)
              IN IF finalError # NoError
                 THEN /\ CallEnds(le, fe, lae)
                      /\ Tally(Woken(tally))
                      /\ pc' = c.outcome
                      /\ result' = c.result
                      /\ thrown' = c.error
                      /\ progress' = emitted \o <<Pct(90)>>
                      /\ progressStage' = emittedBy \o <<0>>
                      /\ failedStage' = IF failed1 = 0 THEN FinalCheck
                                        ELSE failed1
                      /\ stageError' = IF failed1 = 0 THEN finalError
                                       ELSE error1
                      /\ UNCHANGED <<attempt, requests, delays, stage,
                                     request, stagesCalled>>
                 ELSE /\ CallEnds(le, fe, lae)
                      /\ Tally(Woken(tally))
                      /\ pc' = "returned"
                      /\ result' = L2.finalResume
                      /\ progress' = emitted \o <<Pct(90)>>
                                             \o CompletionEvents
                      /\ progressStage' = emittedBy \o <<0>>
                                             \o Emitters(0, CompletionEvents)
                      /\ failedStage' = failed1
                      /\ stageError' = error1
                      /\ UNCHANGED <<attempt, requests, delays, stage,
                                     request, stagesCalled, thrown>>
         [] OTHER ->
              LET c == OrchestratorCatch(sr.error, resume)
              IN /\ CallEnds(le, fe, lae)
                 /\ Tally(Woken(tally))
                 /\ pc' = c.outcome
                 /\ result' = c.result
                 /\ thrown' = c.error
                 /\ progress' = emitted
                 /\ progressStage' = emittedBy
                 /\ failedStage' = failed1
                 /\ stageError' = error1
                 /\ UNCHANGED <<attempt, requests, delays, stage, request,
                                stagesCalled>>

\* the awaiting stage receives the settled call and settles itself
StageCallSettles(call, le, fe, lae) ==
    StageSettles(StageFinish(stage, call), call, le, fe, lae)

\* callGeminiAPI settles: control returns to whoever awaits it
CallSettles(call, le, fe, lae) ==
    IF entry = "customizeResumeWithAgents"
    THEN StageCallSettles(call, le, fe, lae)
    ELSE IF entry = "AIHandler.customizeResume"
    THEN CustomizeResumeSettles(call, le, fe, lae)
    ELSE DirectCallSettles(call, le, fe, lae)

\* attempt++ and the loop test: another fetch, or the throw after the loop
NextIteration(le, fe, lae) ==
    IF LoopContinues(attempt + 1, maxRetries)
    THEN /\ pc' = "fetch"
         /\ Tally(FetchIssued(Woken(tally), stage, attempt + 1))
         /\ attempt' = attempt + 1
         /\ requests' = requests + 1
         /\ CallEnds(le, fe, lae)
         /\ UNCHANGED <<delays, runVars>>
    ELSE CallSettles(CallThrew(ExhaustedError(maxRetries, le)), le, fe, lae)

\* the awaited fetch settles with outcome and the loop body runs on to the
\* next await, or callGeminiAPI settles
FetchSettles(outcome) ==
    /\ pc = "fetch"
    /\ lastResponse' = [stage |-> stage, attempt |-> attempt,
                        outcome |-> outcome]
    /\ lastAttemptFailed' = (AttemptError(outcome) # NoError)
    /\ UNCHANGED <<cfgVars, entry, auxVars>>
    /\ Shadowed(Fetched(outcome))
    /\ LET error == AttemptError(outcome) IN
       IF error = NoError
       THEN CallSettles(CallReturned(Data(outcome)), lastError,
                        firstAttemptError, lastAttemptError)
       ELSE LET le == NextLastError(lastError, error)
                fe == IF attempt = 1 THEN error ELSE firstAttemptError
            IN IF DelayBeforeRetry(attempt, maxRetries)
               THEN /\ pc' = "delay"
                    /\ Tally(TimerSet(Woken(tally), stage, attempt))
                    /\ CallEnds(le, fe, error)
                    /\ delays' = Append(delays,
                                        BackoffDelay(retryDelay, attempt))
                    /\ UNCHANGED <<attempt, requests, runVars>>
               ELSE NextIteration(le, fe, error)

\* fetch rejects (network failure)
FetchRejects ==
    /\ pc = "fetch"
    /\ FetchSettles(NetworkFailure)

\* fetch resolves with a response that is not ok
ResponseNotOk ==
    /\ pc = "fetch"
    /\ \E outcome \in NotOkResponses : FetchSettles(outcome)

\* the kind of reply the prompt of the running call asks for: the resume,
\* as at the last stage, in a call of AIHandler.customizeResume
Asked == IF entry = "AIHandler.customizeResume" THEN NumStages ELSE stage

\* fetch resolves with a 2xx response
ResponseOk ==
    /\ pc = "fetch"
    /\ \E outcome \in OkResponses(Asked) \cup EchoResponses(request) :
          FetchSettles(outcome)

\* the backoff timer fires
DelayElapses ==
    /\ pc = "delay"
    /\ UNCHANGED <<cfgVars, entry, obsVars, auxVars>>
    /\ Shadowed(TimerFired)
    /\ NextIteration(lastError, firstAttemptError, lastAttemptError)

Next ==
    \/ CallGeminiAPI("AIHandler.callGeminiAPI")
    \/ CallGeminiAPI("AgenticAIHandler.callGeminiAPI")
    \/ CustomizeResumeWithAgents
    \/ CustomizeResume
    \/ FetchRejects
    \/ ResponseNotOk
    \/ ResponseOk
    \/ DelayElapses

Spec == Init /\ [][Next]_vars

(***************************************************************************)
(* validateResumeStructure called on its own                               *)
(***************************************************************************)
\* values a field of a parsed reply may hold
FieldValues ==
    {JStr(""), JStr("x"), JNum(0), JNum(1), JBool(TRUE), JBool(FALSE), JNull,
     EmptyObj, JObj([a |-> JNum(1)]), JArr(<<>>), JArr(<<JStr("X")>>)}

\* what personalInfo may hold; Undefined: the record has no personalInfo
PersonalInfoValues ==
    {Undefined, JNull, JStr(""), JStr("Ann"), JNum(1), JBool(TRUE),
     EmptyObj, JObj([name |-> JStr("Ann")]), JArr(<<>>)}

\* rec with key set to v; rec itself when v is Undefined
WithField(rec, key, v) ==
    IF v = Undefined THEN rec ELSE JObj(Put(rec.o, key, v))

\* a field of the record, or a field of its skills object
FieldPaths ==
    {<<f>> : f \in ArrayFields \cup {"summary", "skills"}}
    \cup {<<"skills", t>> : t \in SkillTypes}

\* rec with the field at path set to v; with v Undefined the field is
\* omitted (a skills object then lacks the sub-list)
WithPath(rec, path, v) ==
    IF Len(path) = 1 THEN WithField(rec, path[1], v)
    ELSE WithField(rec, path[1], WithField(EmptyObj, path[2], v))

\* the records the field is put into: personalInfo alone, or with sections
BaseRecords(pi) ==
    {WithField(EmptyObj, "personalInfo", pi),
     WithField(JObj([summary |-> JStr("s"),
                     education |-> JArr(<<>>),
                     projects |-> JArr(<<JStr("P")>>)]),
               "personalInfo", pi)}

Handlers == {"AIHandler", "AgenticAIHandler"}

\* this.validateResumeStructure(resume) of the handler, as a condition
ValidateOn(handler, rec) ==
    IF handler = "AIHandler" THEN ValidateResumeStructure(rec)
    ELSE AgenticValidateResumeStructure(rec)

\* the argument of the call is chosen: base with the field at path set to
\* value, next to the same record with that field omitted
ValidatorInit ==
    /\ maxRetries = DefaultMaxRetries
    /\ retryDelay = DefaultRetryDelay
    /\ resume \in Resumes
    /\ parked = NoFrame
    /\ active = 1
    /\ app = NewApp
    /\ alone = NoShadow
    /\ tally = NoTally
    /\ NoCallYet
    /\ \E pi \in PersonalInfoValues : \E base \in BaseRecords(pi) :
       \E path \in FieldPaths : \E value \in FieldValues :
          unit = [op |-> "validateResumeStructure",
                  at |-> "called",
                  handler |-> "none",
                  personalInfo |-> pi,
                  path |-> path,
                  value |-> value,
                  resume |-> WithPath(base, path, value),
                  omitted |-> WithPath(base, path, Undefined),
                  accepted |-> FALSE,
                  acceptedOmitted |-> FALSE]

\* handler.validateResumeStructure runs on the record and on the record
\* with the field omitted
ValidateResumeStructureCall(handler) ==
    /\ unit.op = "validateResumeStructure"
    /\ unit.at = "called"
    /\ unit' = [unit EXCEPT
                  !.at = "returned",
                  !.handler = handler,
                  !.accepted = ValidateOn(handler, unit.resume),
                  !.acceptedOmitted = ValidateOn(handler, unit.omitted)]
    /\ UNCHANGED <<cfgVars, entry, callVars, errVars, runVars, obsVars,
                   parked, active, app, alone,
                   tally>>

ValidatorNext ==
    \/ ValidateResumeStructureCall("AIHandler")
    \/ ValidateResumeStructureCall("AgenticAIHandler")

ValidatorSpec == ValidatorInit /\ [][ValidatorNext]_vars

(***************************************************************************)
(* extractJSON and parseAIResponse called on their own                     *)
(***************************************************************************)
\* a valid resume whose personalInfo holds a nested object
DeepResumeText ==
    <<LB, S("personalInfo"), CL, LB, S("contact"), CL,
      LB, S("email"), CL, S("e"), RB, RB, RB>>

\* what a brace span of a reply may hold
Payloads ==
    {ResumeAText, ResumeBText, DeepResumeText, BadExperienceText,
     BadPersonalInfoText, <<LB, RB>>, BrokenSpan}

\* the payload inside a fence labelled json
Fenced(txt) == <<FENCE, W("json"), WS>> \o txt \o <<WS, FENCE>>

\* two brace spans with prose around them
TwoSpans(first, second) ==
    <<W("Draft"), WS>> \o first \o <<WS, W("final"), WS>> \o second

\* a fenced block followed by prose and a bare span
FencedThenSpan(first, second) ==
    Fenced(first) \o <<WS, W("or"), WS>> \o second

ReplyForms == {"raw", "fenced", "prose", "spans", "fenced-then-span"}

\* the reply text of a form
Reply(form, first, second) ==
    CASE form = "raw" -> first
      [] form = "fenced" -> Fenced(first)
      [] form = "prose" -> InProse(first)
      [] form = "spans" -> TwoSpans(first, second)
      [] OTHER -> FencedThenSpan(first, second)

\* a response body without a reply text
TextlessResponses ==
    {Data(OkBody(Body(Undefined, c, <<>>))) : c \in {"absent", "empty",
                                                     "nocontent"}}
    \cup {Data(OkBody(Body(Undefined, "text", <<>>)))}

NoReturn == [ok |-> FALSE, val |-> Undefined, error |-> NoError]

\* the argument of the call is chosen
ExtractorInit ==
    /\ maxRetries = DefaultMaxRetries
    /\ retryDelay = DefaultRetryDelay
    /\ resume \in Resumes
    /\ parked = NoFrame
    /\ active = 1
    /\ app = NewApp
    /\ alone = NoShadow
    /\ tally = NoTally
    /\ NoCallYet
    /\ \/ \E form \in ReplyForms : \E first \in Payloads :
          \E second \in Payloads :
             /\ form \in {"raw", "fenced", "prose"} => second = first
             /\ unit = [op |-> "extract", at |-> "called", by |-> "none",
                        form |-> form, first |-> first, second |-> second,
                        response |->
                           Data(OkBody(Body(Undefined, "text",
                                            Reply(form, first, second)))),
                        out |-> NoReturn, methods |-> <<>>]
       \/ \E response \in TextlessResponses :
             unit = [op |-> "extract", at |-> "called", by |-> "none",
                     form |-> "none", first |-> <<>>, second |-> <<>>,
                     response |-> response, out |-> NoReturn,
                     methods |-> <<>>]

Agents == {"JobAnalyzerAgent", "ResumeOptimizerAgent", "QualityValidatorAgent"}

\* the response holds a reply text
HasText(response) ==
    response.kind = "body" /\ response.body.candidates = "text"

\* the direct parse of the reply text of the response
DirectParse(response) ==
    IF HasText(response) /\ response.body.text # <<>>
    THEN JSONParse(Trim(response.body.text))
    ELSE Fail

\* agent.extractJSON(response) returns or throws
ExtractJSONCall(agent) ==
    /\ unit.op = "extract"
    /\ unit.at = "called"
    /\ unit' = [unit EXCEPT
                   !.at = "settled", !.by = agent,
                   !.out = AgentExtractJSON(unit.response),
                   !.methods =
                      IF HasText(unit.response)
                      THEN <<"direct">>
                           \o (IF DirectParse(unit.response).ok THEN <<>>
                               ELSE <<"span">>)
                      ELSE <<>>]
    /\ UNCHANGED <<cfgVars, entry, callVars, errVars, runVars, obsVars,
                   parked, active, app, alone,
                   tally>>

\* aiHandler.parseAIResponse(response) returns or throws
ParseAIResponseCall ==
    /\ unit.op = "extract"
    /\ unit.at = "called"
    /\ unit' = [unit EXCEPT
                   !.at = "settled", !.by = "AIHandler",
                   !.out = ParseAIResponse(unit.response),
                   !.methods =
                      IF HasText(unit.response)
                         /\ unit.response.body.text # <<>>
                      THEN ParseAIResponseMethods(
                              DirectParse(unit.response),
                              FromCodeBlock(unit.response.body.text,
                                 CodeBlockMatch(unit.response.body.text)),
                              FromPattern(unit.response.body.text,
                                 BraceMatch(unit.response.body.text),
                                 FromCodeBlock(unit.response.body.text,
                                    CodeBlockMatch(unit.response.body.text))))
                      ELSE <<>>]
    /\ UNCHANGED <<cfgVars, entry, callVars, errVars, runVars, obsVars,
                   parked, active, app, alone,
                   tally>>

\* agenticAIHandler.extractJSON(response) returns or throws
HandlerExtractJSONCall ==
    /\ unit.op = "extract"
    /\ unit.at = "called"
    /\ unit' = [unit EXCEPT
                   !.at = "settled", !.by = "AgenticAIHandler",
                   !.out = HandlerExtractJSON(unit.response,
                                              DirectParse(unit.response)),
                   !.methods =
                      IF HasText(unit.response)
                      THEN AfterDirectFailureMethods(
                              DirectParse(unit.response),
                              CodeBlockMatch(unit.response.body.text))
                      ELSE <<>>]
    /\ UNCHANGED <<cfgVars, entry, callVars, errVars, runVars, obsVars,
                   parked, active, app, alone,
                   tally>>

\* resumeParser.parseAIParseResponse(response) returns or throws
ParseAIParseResponseCall ==
    /\ unit.op = "extract"
    /\ unit.at = "called"
    /\ unit' = [unit EXCEPT
                   !.at = "settled", !.by = "ResumeParser",
                   !.out = ParseAIParseResponse(unit.response,
                                                DirectParse(unit.response)),
                   !.methods =
                      IF HasText(unit.response)
                      THEN AfterDirectFailureMethods(
                              DirectParse(unit.response),
                              CodeBlockMatch(unit.response.body.text))
                      ELSE <<>>]
    /\ UNCHANGED <<cfgVars, entry, callVars, errVars, runVars, obsVars,
                   parked, active, app, alone,
                   tally>>

ExtractorNext ==
    \/ ExtractJSONCall("JobAnalyzerAgent")
    \/ ExtractJSONCall("ResumeOptimizerAgent")
    \/ ExtractJSONCall("QualityValidatorAgent")
    \/ ParseAIResponseCall
    \/ HandlerExtractJSONCall
    \/ ParseAIParseResponseCall

ExtractorSpec == ExtractorInit /\ [][ExtractorNext]_vars

(***************************************************************************)
(* two runs of customizeResumeWithAgents on one handler                    *)
(***************************************************************************)
\* callGeminiAPI declares these with let inside the call: every call has its
\* own, where a property of the handler would be one for all calls
CallLocalsOnHandler == {}
CallLocals == {"attempt", "lastError"}

\* what a run keeps while it is suspended at an await: its arguments, the
\* locals of customizeResumeWithAgents, of the stage and of the callGeminiAPI
\* it awaits, and what has been observed of it
Frame ==
    [entry |-> entry, resume |-> resume, pc |-> pc, attempt |-> attempt,
     lastError |-> lastError, requests |-> requests, delays |-> delays,
     firstAttemptError |-> firstAttemptError,
     lastAttemptError |-> lastAttemptError, stage |-> stage,
     request |-> request, locals |-> locals, returnedData |-> returnedData,
     result |-> result, thrown |-> thrown, progress |-> progress,
     failedStage |-> failedStage, stageError |-> stageError,
     completedStages |-> completedStages, stagesCalled |-> stagesCalled,
     progressStage |-> progressStage, echoed |-> echoed,
     lastResponse |-> lastResponse, lastAttemptFailed |-> lastAttemptFailed,
     alone |-> alone]

\* the frame of a run on res that has not been called yet
NotCalled(res) ==
    [entry |-> "none", resume |-> res, pc |-> "idle", attempt |-> 0,
     lastError |-> NoError, requests |-> 0, delays |-> <<>>,
     firstAttemptError |-> NoError, lastAttemptError |-> NoError,
     stage |-> 0, request |-> NoPrompt, locals |-> NoLocals,
     returnedData |-> NoData, result |-> Undefined, thrown |-> NoError,
     progress |-> <<>>, failedStage |-> 0, stageError |-> NoError,
     completedStages |-> 0, stagesCalled |-> <<>>, progressStage |-> <<>>,
     echoed |-> {},
     lastResponse |-> [stage |-> 0, attempt |-> 0, outcome |-> NoOutcome],
     lastAttemptFailed |-> FALSE,
     alone |-> [on |-> TRUE, at |-> AloneNotCalled]]

\* the value a resumed run finds in name: its own when name is local to the
\* call, the one the run before it left otherwise
Own(name, own, left) == IF name \in CallLocals THEN own ELSE left

\* the executing run is suspended at an await (or has settled) and the event
\* loop resumes the other run, or the caller makes the second call
Switch ==
    /\ parked # NoFrame
    /\ parked.pc \in {"idle", "fetch", "delay"}
    /\ parked' = Frame
    /\ active' = 3 - active
    /\ entry' = parked.entry
    /\ resume' = parked.resume
    /\ pc' = parked.pc
    /\ attempt' = Own("attempt", parked.attempt, attempt)
    /\ lastError' = Own("lastError", parked.lastError, lastError)
    /\ requests' = parked.requests
    /\ delays' = parked.delays
    /\ firstAttemptError' = parked.firstAttemptError
    /\ lastAttemptError' = parked.lastAttemptError
    /\ stage' = parked.stage
    /\ request' = parked.request
    /\ locals' = parked.locals
    /\ returnedData' = parked.returnedData
    /\ result' = parked.result
    /\ thrown' = parked.thrown
    /\ progress' = parked.progress
    /\ failedStage' = parked.failedStage
    /\ stageError' = parked.stageError
    /\ completedStages' = parked.completedStages
    /\ stagesCalled' = parked.stagesCalled
    /\ progressStage' = parked.progressStage
    /\ echoed' = parked.echoed
    /\ lastResponse' = parked.lastResponse
    /\ lastAttemptFailed' = parked.lastAttemptFailed
    /\ alone' = parked.alone
    /\ UNCHANGED <<maxRetries, retryDelay, unit, app, tally>>

\* the replies of the stubbed model to the two runs: the record the stage
\* asks for (at apply and validate the resume of the prompt), or prose
SharedModelReplies(k, prompt) ==
    {OkBody(Body(Undefined, "text", ProseOnly))}
    \cup (CASE k = 1 -> {OkBody(Body(Undefined, "text", AnalysisText))}
            [] k = 2 -> {OkBody(Body(Undefined, "text", StrategyText))}
            [] OTHER -> EchoResponses(prompt))

\* fetch resolves with a 2xx response for the executing run
ModelReplies ==
    /\ pc = "fetch"
    /\ \E outcome \in SharedModelReplies(stage, request) :
          FetchSettles(outcome)

\* one handler, constructed; the first run is about to be called on one
\* resume and the second on the other
ConcurrentInit ==
    /\ maxRetries = DefaultMaxRetries
    /\ retryDelay = DefaultRetryDelay
    /\ resume \in Resumes
    /\ unit = NoUnit
    /\ \E res \in Resumes \ {resume} : parked = NotCalled(res)
    /\ active = 1
    /\ app = NewApp
    /\ alone = [on |-> TRUE, at |-> AloneNotCalled]
    /\ tally = NoTally
    /\ NoCallYet

ConcurrentNext ==
    \/ CustomizeResumeWithAgents
    \/ FetchRejects
    \/ ResponseNotOk
    \/ ModelReplies
    \/ DelayElapses
    \/ Switch

ConcurrentSpec == ConcurrentInit /\ [][ConcurrentNext]_vars

(***************************************************************************)
(* one run of customizeResumeWithAgents, its fetches and timers counted    *)
(***************************************************************************)
RunInit ==
    /\ maxRetries \in 1..DefaultMaxRetries
    /\ retryDelay = DefaultRetryDelay
    /\ resume \in Resumes
    /\ unit = NoUnit
    /\ parked = NoFrame
    /\ active = 1
    /\ app = NewApp
    /\ alone = NoShadow
    /\ tally = [NoTally EXCEPT !.on = TRUE]
    /\ NoCallYet

\* the pending fetch settles, one way or another
FetchEnds ==
    \/ FetchRejects
    \/ ResponseNotOk
    \/ ResponseOk

RunNext ==
    \/ CustomizeResumeWithAgents
    \/ FetchEnds
    \/ DelayElapses

\* every request settles in the end (the browser resolves or rejects the
\* promise of fetch) and every timer fires
RunSpec ==
    /\ RunInit
    /\ [][RunNext]_vars
    /\ WF_vars(FetchEnds)
    /\ WF_vars(DelayElapses)

(***************************************************************************)
(* ResumeCustomizerApp: the handlers of the page                           *)
(***************************************************************************)
ApiKey == JStr("AIza")
Placeholder == <<W("// Resume JSON will appear here...")>>

\* what the user may leave in the job description box
FormValues == {<<WS>>, <<WS, W(JobDescription), WS>>}

\* what the user may leave in the API key box
KeyValues == {<<WS>>, <<W(ApiKey.s)>>}

\* what the user may leave in the JSON editor
EditorTexts == {ResumeBText, BrokenSpan}

AlreadyCustomizing == "Customization already in progress..."
RequirementsMissing == "Please complete all requirements before proceeding"
DescriptionMissing ==
    "Please enter a job description before customizing your resume"
Skipped == "Resume loaded for editing (AI customization was skipped)"
Customized == "Resume customized successfully!"
CustomizationFailed == "Customization failed:"
AICustomizationFailed == "AI customization failed:"
ResetDone == "Resume reset to original"

\* every variable but app
pageVars == <<maxRetries, retryDelay, resume, entry, callVars, errVars,
              runVars, obsVars, unit, parked, active, alone, tally>>

\* the pipeline that startCustomization awaits has settled: the rest of
\* startCustomization runs before any other event is handled
AwaitOver == app.inFlight > 0 /\ pc \in {"returned", "thrown"}

\* a handler that touches the app only
Handles(a) ==
    /\ ~AwaitOver
    /\ app' = a
    /\ UNCHANGED pageVars

Refs(a) ==
    {a.currentResume.ref, a.originalResume.ref, a.customizedResume.ref}

\* variant: the requirements are taken as met
CheckRequirementsAlwaysMet(a) == TRUE

\* checkRequirements(): allMet
CheckRequirements(a) ==
    /\ Truthy(a.apiKey)
    /\ Truthy(a.currentResume.val)
    /\ Trim(a.jobDescription) # <<>>

\* updateResumeFromEditor() when the editor holds value (a throw of
\* updateResumePreview is caught with the SyntaxError of JSON.parse)
UpdateResumeFromEditor(a, value) ==
    IF ~a.monacoEditor THEN a
    ELSE IF value = <<>> \/ value = Placeholder THEN a
    ELSE LET parsed == JSONParse(value) IN
         IF parsed.ok
         THEN [a EXCEPT !.currentResume =
                  Held(FreshRef(Refs(a)), parsed.val)]
         ELSE a

\* updateEditorContent(): setValue makes the editor call
\* updateResumeFromEditor
UpdateEditorContent(a) ==
    IF a.monacoEditor /\ Truthy(a.currentResume.val)
    THEN UpdateResumeFromEditor(a, Stringify(a.currentResume.val))
    ELSE a

\* updateResumePreview() throws
UpdateResumePreviewThrows(a) ==
    /\ Truthy(a.currentResume.val)
    /\ GenerateResumePreviewHTMLThrows(a.currentResume.val)

\* the editor has been loaded from the CDN and created
MonacoLoads ==
    /\ ~app.monacoEditor
    /\ Handles([app EXCEPT !.monacoEditor = TRUE])

\* saveApiKey()
SaveApiKey ==
    \E typed \in KeyValues :
       LET key == Trim(typed) IN
       Handles(IF key = <<>> THEN app
               ELSE [app EXCEPT !.apiKey = JStr(key[1].s)])

\* handleJobDescriptionInput(event)
HandleJobDescriptionInput ==
    \E value \in FormValues :
       Handles([app EXCEPT !.jobDescription = value])

\* the two assignments of handleFileUpload and loadSampleResume
Loaded(a, resumeData) ==
    LET data == FreshRef({a.customizedResume.ref})
        copy == FreshRef({a.customizedResume.ref, data})
    IN [a EXCEPT !.originalResume = Held(copy, DeepCopy(resumeData)),
                 !.currentResume = Held(data, resumeData),
                 !.parsed = resumeData]

\* handleFileUpload(event), from the moment parseFile has resolved with
\* resumeData to the timer that closes the progress modal
HandleFileUpload ==
    \E resumeData \in Resumes :
       LET edited == UpdateEditorContent(Loaded(app, resumeData)) IN
       Handles(IF UpdateResumePreviewThrows(edited)
               THEN [edited EXCEPT !.progressModal = FALSE]
               ELSE [edited EXCEPT !.editorSection = TRUE,
                                   !.progressModal = FALSE])

\* loadSampleResume() once test-resume.json has been read as resumeData (a
\* throw goes to its catch block, which logs)
LoadSampleResume(a, resumeData) ==
    LET edited == UpdateEditorContent(Loaded(a, resumeData)) IN
    IF UpdateResumePreviewThrows(edited) THEN edited
    ELSE [edited EXCEPT !.editorSection = TRUE]

\* removeFile(): the placeholder it puts in the editor is skipped by
\* updateResumeFromEditor
RemoveFile ==
    Handles(UpdateResumeFromEditor(
               [app EXCEPT !.originalResume = NoObject,
                           !.currentResume = NoObject,
                           !.customizedResume = NoObject,
                           !.parsed = Undefined],
               Placeholder))

\* the user edits the text of the editor: onDidChangeModelContent
EditorEdit ==
    /\ app.monacoEditor
    /\ app.editorSection
    /\ \E text \in EditorTexts : Handles(UpdateResumeFromEditor(app, text))

\* resetResume() (a throw of updateResumePreview leaves the handler)
ResetResume ==
    IF Truthy(app.originalResume.val)
    THEN LET copied == [app EXCEPT !.currentResume =
                           Held(FreshRef(Refs(app)),
                                DeepCopy(app.originalResume.val))]
             edited == UpdateEditorContent(copied)
         IN Handles(IF UpdateResumePreviewThrows(edited) THEN edited
                    ELSE [edited EXCEPT !.said = ResetDone])
    ELSE Handles(app)

\* variant: no guard against a second run
IsCustomizingNeverSeen(a) == FALSE

\* if (this.isCustomizing)
IsCustomizing(a) == a.isCustomizing

\* startCustomization() up to its await
StartCustomization ==
    /\ ~AwaitOver
    /\ IF IsCustomizing(app)
       THEN /\ app' = [app EXCEPT !.said = AlreadyCustomizing]
            /\ UNCHANGED pageVars
       ELSE IF ~CheckRequirements(app)
       THEN /\ app' = [app EXCEPT !.said = RequirementsMissing]
            /\ UNCHANGED pageVars
       ELSE IF Trim(app.jobDescription) = <<>>
       THEN /\ app' = [app EXCEPT !.said = DescriptionMissing]
            /\ UNCHANGED pageVars
       ELSE /\ app' = [app EXCEPT !.isCustomizing = TRUE,
                                  !.progressModal = TRUE,
                                  !.fellBack = FALSE,
                                  !.basis = IF @ = Undefined THEN @
                                            ELSE app.originalResume.val,
                                  !.inFlight = @ + 1]
            /\ resume' = app.currentResume.val
            /\ RunStarts(app.currentResume.val)
            /\ UNCHANGED <<maxRetries, retryDelay, unit, parked, active>>

\* variant: the fallback is the original resume itself
FallbackSameObject(a) == a.originalResume

\* customizedData = JSON.parse(JSON.stringify(this.originalResume))
Fallback(a) ==
    Held(FreshRef(Refs(a)), DeepCopy(a.originalResume.val))

\* the fields of the app when startCustomization ends, its await having
\* settled: failed tells that it rejected, value is what it resolved with
AfterAwait(a, failed, value) ==
    LET customizedData == IF failed THEN Fallback(a)
                          ELSE Held(FreshRef(Refs(a)), value)
        edited == UpdateEditorContent(
                     [a EXCEPT !.customizedResume = customizedData,
                               !.currentResume = customizedData])
        ended ==
           IF ~Truthy(customizedData.val) THEN a
           ELSE IF UpdateResumePreviewThrows(edited)
           THEN [edited EXCEPT !.progressModal = FALSE,
                               !.said = CustomizationFailed]
           ELSE [edited EXCEPT
                    !.editorSection = TRUE,
                    !.progressModal = FALSE,
                    !.said = IF StrictEquals(customizedData,
                                             a.originalResume)
                             THEN Skipped ELSE Customized]
    IN [ended EXCEPT !.isCustomizing = FALSE,
                     !.warning = @ \/ failed,
                     !.fellBack = failed /\ Truthy(customizedData.val),
                     !.basis = IF @ = Undefined THEN @ ELSE JNull,
                     !.inFlight = @ - 1]

\* the call of customizeResumeWithAgents is over: nothing of it is left
RunForgotten ==
    /\ resume' = Undefined
    /\ entry' = "none"
    /\ pc' = "idle"
    /\ stage' = 0
    /\ attempt' = 0
    /\ lastError' = NoError
    /\ request' = NoPrompt
    /\ locals' = NoLocals
    /\ returnedData' = NoData
    /\ result' = Undefined
    /\ thrown' = NoError
    /\ progress' = <<>>
    /\ progressStage' = <<>>
    /\ echoed' = {}
    /\ requests' = 0
    /\ delays' = <<>>
    /\ lastResponse' = [stage |-> 0, attempt |-> 0, outcome |-> NoOutcome]
    /\ firstAttemptError' = NoError
    /\ lastAttemptError' = NoError
    /\ lastAttemptFailed' = FALSE
    /\ failedStage' = 0
    /\ stageError' = NoError
    /\ completedStages' = 0
    /\ stagesCalled' = <<>>

\* startCustomization() from its await on: the inner catch, the
\* installation, the outer catch and the finally block
CustomizationSettles ==
    /\ AwaitOver
    /\ app' = AfterAwait(app, pc = "thrown", result)
    /\ RunForgotten
    /\ UNCHANGED <<maxRetries, retryDelay, unit, parked, active, alone,
                   tally>>

\* the timer set in the inner catch block fires: showError
WarningShown ==
    /\ app.warning
    /\ Handles([app EXCEPT !.warning = FALSE, !.said = AICustomizationFailed])

\* the timer of showSuccessMessage removes the notification
NotificationRemoved ==
    /\ app.said \in {Skipped, Customized, ResetDone}
    /\ Handles([app EXCEPT !.said = ""])

\* hideErrorModal(): the user closes the error modal
HideErrorModal ==
    /\ app.said \in {RequirementsMissing, DescriptionMissing,
                     CustomizationFailed, AICustomizationFailed}
    /\ Handles([app EXCEPT !.said = ""])

\* the replies of the stubbed model to the run of the page: prose or the
\* analysis, the strategy, the resume of the prompt, and at the last stage
\* a resume or a record whose experience is a string
PageModelReplies(k, prompt) ==
    CASE k = 1 -> {OkBody(Body(Undefined, "text", ProseOnly)),
                   OkBody(Body(Undefined, "text", AnalysisText))}
      [] k = 2 -> {OkBody(Body(Undefined, "text", StrategyText))}
      [] k = 3 -> EchoResponses(prompt)
      [] OTHER -> {OkBody(Body(Undefined, "text", ResumeAText)),
                   OkBody(Body(Undefined, "text", BadExperienceText))}

\* fetch resolves with a 2xx response for the run of the page
ModelRepliesToPage ==
    /\ pc = "fetch"
    /\ \E outcome \in PageModelReplies(stage, request) :
          FetchSettles(outcome)

\* the page after init(): the key read from localStorage if there is one,
\* the sample resume loaded when the page is served from localhost
AppInit ==
    /\ maxRetries = DefaultMaxRetries
    /\ retryDelay = DefaultRetryDelay
    /\ resume = Undefined
    /\ unit = NoUnit
    /\ parked = NoFrame
    /\ active = 1
    /\ alone = NoShadow
    /\ tally = NoTally
    /\ NoCallYet
    /\ \E key \in {JNull, ApiKey} :
          LET loaded == [NewApp EXCEPT !.apiKey = key] IN
          \/ app = loaded
          \/ \E resumeData \in Resumes :
                app = LoadSampleResume(loaded, resumeData)

AppNext ==
    \/ MonacoLoads
    \/ SaveApiKey
    \/ HandleJobDescriptionInput
    \/ HandleFileUpload
    \/ RemoveFile
    \/ EditorEdit
    \/ ResetResume
    \/ StartCustomization
    \/ CustomizationSettles
    \/ WarningShown
    \/ NotificationRemoved
    \/ HideErrorModal
    \/ ModelRepliesToPage

AppSpec == AppInit /\ [][AppNext]_vars

(***************************************************************************)
(* the handlers that assign the resume fields, and a run in flight         *)
(***************************************************************************)
\* the page with a key saved, a job description typed and the sample resume
\* loaded
OverlapInit ==
    /\ maxRetries = DefaultMaxRetries
    /\ retryDelay = DefaultRetryDelay
    /\ resume = Undefined
    /\ unit = NoUnit
    /\ parked = NoFrame
    /\ active = 1
    /\ alone = NoShadow
    /\ tally = NoTally
    /\ NoCallYet
    /\ \E resumeData \in Resumes :
          app = LoadSampleResume(
                   [NewApp EXCEPT !.apiKey = ApiKey,
                                  !.jobDescription = <<W(JobDescription)>>,
                                  !.basis = JNull],
                   resumeData)

OverlapNext ==
    \/ MonacoLoads
    \/ HandleFileUpload
    \/ RemoveFile
    \/ EditorEdit
    \/ StartCustomization
    \/ CustomizationSettles
    \/ ModelRepliesToPage

OverlapSpec == OverlapInit /\ [][OverlapNext]_vars

(***************************************************************************)
(* Properties of callGeminiAPI                                             *)
(***************************************************************************)
Pipeline == entry = "customizeResumeWithAgents"
DirectCall == entry \in {"AIHandler.callGeminiAPI",
                         "AgenticAIHandler.callGeminiAPI"}
Settled == pc \in {"returned", "thrown"}

\* the response that settled last is a 2xx response whose body is a JSON
\* value without an error field (an object without one, or a number)
LastResponseClean ==
    \/ lastResponse.outcome.kind = "prim"
    \/ /\ lastResponse.outcome.kind = "body"
       /\ lastResponse.outcome.body.error = Undefined

\* C1: a call of callGeminiAPI, on either handler, issues at most maxRetries
\* requests, and once a request yields a 2xx response whose body has no error
\* field that body is what the call returns and the call issues no further
\* request (a direct call has returned; a pipeline has moved on to a later
\* stage or has ended, with the request count of the call unchanged).
C1_RetryBudgetAndImmediateReturn ==
    /\ requests <= maxRetries
    /\ LastResponseClean =>
          /\ returnedData = Data(lastResponse.outcome)
          /\ DirectCall => pc = "returned"
          /\ \/ Pipeline /\ stage > lastResponse.stage
             \/ Settled /\ requests = lastResponse.attempt

\* a direct call on AIHandler returned the body of its second request
C1_Witness ==
    /\ entry = "AIHandler.callGeminiAPI"
    /\ pc = "returned"
    /\ requests = 2
    /\ LastResponseClean
    /\ returnedData.body.candidates = "text"

Exhausted == pc = "thrown" /\ lastAttemptFailed

\* the message of the error callGeminiAPI throws after the loop
ExhaustedMessage ==
    <<"API call failed after", ToString(maxRetries),
      "attempts. Last error:">> \o lastAttemptError

\* C3: when all maxRetries attempts of a call fail, the call throws an error
\* whose message names the number of attempts and carries the message of the
\* error of the last attempt, and maxRetries requests were issued, no more.
C3_ExhaustedCarriesLastError ==
    Exhausted =>
       /\ requests = maxRetries
       /\ lastResponse.attempt = maxRetries
       /\ lastAttemptError # NoError
       /\ DirectCall => thrown = ExhaustedMessage
       /\ Pipeline => /\ Len(stageError) > 1
                      /\ Tail(stageError) = ExhaustedMessage

\* three attempts failed, the first and the last with different errors
C3_Witness ==
    /\ Exhausted
    /\ entry = "AgenticAIHandler.callGeminiAPI"
    /\ maxRetries = 3
    /\ firstAttemptError # lastAttemptError

\* the attempt that settled last is retried, or was the last one allowed
RetriedWhileBudgetRemains ==
    IF lastResponse.attempt < maxRetries
    THEN /\ stage = lastResponse.stage
         /\ \/ pc = "delay" /\ attempt = lastResponse.attempt
            \/ pc = "fetch" /\ attempt = lastResponse.attempt + 1
    ELSE pc = "thrown"

\* C4 as stated: exactly a network failure, a non-2xx status and a 2xx body
\* with an error field count as a failed attempt.
C4_OnlyListedOutcomesFail ==
    lastResponse.attempt > 0 =>
       (lastAttemptFailed <=>
           \/ lastResponse.outcome.kind \in {"network", "notok"}
           \/ /\ lastResponse.outcome.kind = "body"
              /\ lastResponse.outcome.body.error # Undefined)

\* C4 amended: exactly these outcomes count as a failed attempt and are
\* retried while budget remains: a network failure, a non-2xx status, a 2xx
\* response whose body cannot be read as JSON or is JSON null, and a 2xx
\* response whose body has a truthy error field.
C4_FailedAttemptsAmended ==
    lastResponse.attempt > 0 =>
       /\ lastAttemptFailed <=>
             \/ lastResponse.outcome.kind \in {"network", "notok", "badjson",
                                               "null"}
             \/ /\ lastResponse.outcome.kind = "body"
                /\ Truthy(lastResponse.outcome.body.error)
       /\ lastAttemptFailed => RetriedWhileBudgetRemains
       /\ ~lastAttemptFailed =>
             \/ Pipeline /\ stage > lastResponse.stage
             \/ Settled /\ requests = lastResponse.attempt

\* a 2xx response with an unreadable body is being retried
C4_Witness ==
    /\ pc = "delay"
    /\ lastResponse.outcome.kind = "badjson"
    /\ lastAttemptFailed

(***************************************************************************)
(* Properties of customizeResumeWithAgents                                 *)
(***************************************************************************)
\* a JobAnalysis or OptimizationStrategy record passes validation when it
\* is a non-null object
NonNullObject(v) == v.t = "obj"

\* the stages invoked so far are analyze, strategy, apply, validate, in order
StagesInOrder ==
    /\ Len(stagesCalled) <= NumStages
    /\ \A i \in 1..Len(stagesCalled) : stagesCalled[i] = i

\* C5 as stated: the stages run in order, and the model call of a stage is
\* issued only when the record of the stage before it has passed validation;
\* the validate stage starts only with an apply-stage candidate that
\* satisfies the structural resume validator.
C5_StageStartsAfterValidatedRecord ==
    Pipeline =>
       /\ StagesInOrder
       /\ stage >= 2 => NonNullObject(locals.jobAnalysis)
       /\ stage >= 3 => NonNullObject(locals.optimizationStrategy)
       /\ stage >= 4 => ValidateResumeStructure(locals.optimizedResume)

\* C6: when stage k fails, the run throws, the stages invoked are exactly
\* 1..k, k-1 of them returned a record, and the model call that ran last is
\* the one of stage k.
C6_FailureStopsTheSequence ==
    failedStage \in 1..NumStages =>
       /\ pc = "thrown"
       /\ stage = failedStage
       /\ request.stage = StageNames[failedStage]
       /\ stagesCalled = [i \in 1..failedStage |-> i]
       /\ completedStages = failedStage - 1

\* the apply stage failed after analyze and strategy returned
C6_Witness ==
    /\ failedStage = 3
    /\ pc = "thrown"
    /\ completedStages = 2
    /\ stagesCalled = <<1, 2, 3>>

\* C7 as stated: every record customizeResumeWithAgents returns satisfies the
\* structural validator (personalInfo an object; experience, education,
\* projects and the sub-lists of an object-typed skills sequences if present).
C7_ReturnedRecordIsValid ==
    (Pipeline /\ pc = "returned") => ValidateResumeStructure(result)

\* C8: a run in which a stage or the final check failed has thrown and has
\* yielded no record, and a run that returned had no failure.
C8_FailureYieldsNoRecord ==
    Pipeline =>
       /\ failedStage # 0 => /\ pc = "thrown"
                             /\ result = Undefined
                             /\ thrown # NoError
       /\ pc = "returned" => failedStage = 0
       /\ pc = "thrown" => failedStage # 0 /\ result = Undefined

\* the validate stage returned a record that failed the final check
C8_Witness ==
    /\ Pipeline
    /\ failedStage = FinalCheck
    /\ pc = "thrown"
    /\ locals.finalResume # Undefined
    /\ result = Undefined

\* the stage that the message of a thrown error names
StageOfMessage(msg) ==
    IF Len(msg) < 2 THEN 0
    ELSE CASE msg[2] = "Job analysis failed:" -> 1
           [] msg[2] = "Strategy creation failed:" -> 2
           [] msg[2] = "Optimization application failed:" -> 3
           [] msg[2] = "Quality validation failed:" -> 4
           [] msg[2] = "Final resume validation failed" -> FinalCheck
           [] OTHER -> 0

ResumeSchema(v) ==
    /\ v.t = "obj"
    /\ Get(v, "personalInfo").t = "obj"
    /\ \A f \in ArrayFields : HasKey(v, f) => IsArray(Get(v, f))
    /\ HasKey(v, "skills") =>
          /\ Get(v, "skills").t = "obj"
          /\ \A f \in SkillTypes :
                HasKey(Get(v, "skills"), f) => IsArray(Get(Get(v, "skills"), f))

AnalysisSchema(v) ==
    /\ v.t = "obj"
    /\ HasKey(v, "mustHaveSkills") /\ IsArray(Get(v, "mustHaveSkills"))

StrategySchema(v) ==
    /\ v.t = "obj"
    /\ HasKey(v, "skillsToEmphasize") /\ IsArray(Get(v, "skillsToEmphasize"))

\* the reply of the validate stage has arrived, and at every stage the reply
\* was JSON of the schema of that stage
AllRepliesWellFormed ==
    /\ Pipeline
    /\ stage = NumStages
    /\ lastResponse.stage = NumStages
    /\ LastResponseClean
    /\ lastResponse.outcome.body.candidates = "text"
    /\ JSONParse(lastResponse.outcome.body.text).ok
    /\ ResumeSchema(JSONParse(lastResponse.outcome.body.text).val)
    /\ AnalysisSchema(locals.jobAnalysis)
    /\ StrategySchema(locals.optimizationStrategy)
    /\ ResumeSchema(locals.optimizedResume)

\* C10: when the model returns well-formed JSON of the expected schema at
\* every stage, the run returns the record of the validate stage, that record
\* satisfies the structural validator, and the last progress event is 100.
C10_WellFormedRepliesSucceed ==
    AllRepliesWellFormed =>
       /\ pc = "returned"
       /\ result = JSONParse(lastResponse.outcome.body.text).val
       /\ ValidateResumeStructure(result)
       /\ progress # <<>>
       /\ progress[Len(progress)] = Pct(100)

\* a run with well-formed replies at all four stages has returned
C10_Witness ==
    /\ AllRepliesWellFormed
    /\ pc = "returned"
    /\ completedStages = NumStages

(***************************************************************************)
(* Properties of validateResumeStructure                                   *)
(***************************************************************************)
ValidatorReturned ==
    unit.op = "validateResumeStructure" /\ unit.at = "returned"

\* personalInfo is a (non-null) plain object
PersonalInfoIsObject(u) == u.personalInfo.t = "obj"

\* the field of the call is one the schema declares as a sequence
SequenceField(u) ==
    \/ Len(u.path) = 1 /\ u.path[1] \in ArrayFields
    \/ Len(u.path) = 2 /\ u.path[2] \in SkillTypes

\* C11: validateResumeStructure rejects every record whose personalInfo is
\* an object and in which experience, education, projects or a named
\* sub-list of an object-typed skills holds a value that is not a sequence
\* (a string, also the empty one, a number, also 0, a boolean, null, a plain
\* object), and accepts the same record with that field omitted.
C11_NonSequenceFieldRejected ==
    (ValidatorReturned /\ PersonalInfoIsObject(unit) /\ SequenceField(unit)
       /\ ~IsArray(unit.value))
    => (~unit.accepted /\ unit.acceptedOmitted)

\* C12: validateResumeStructure accepts every record whose personalInfo is
\* a non-null object (typeof object) and that has no summary, experience,
\* education, skills or projects, and rejects every record whose
\* personalInfo is missing, null or not object-typed.
C12_PermissiveAboutAbsentSections ==
    ValidatorReturned =>
       /\ (TypeofObject(unit.personalInfo) /\ unit.personalInfo # JNull
            /\ DOMAIN unit.omitted.o = {"personalInfo"})
            => unit.acceptedOmitted
       /\ (unit.personalInfo = Undefined \/ unit.personalInfo = JNull
            \/ ~TypeofObject(unit.personalInfo))
            => (~unit.accepted /\ ~unit.acceptedOmitted)

\* AIHandler.validateResumeStructure accepted a record that holds nothing
\* but an object personalInfo
C12_Witness ==
    /\ ValidatorReturned
    /\ unit.handler = "AIHandler"
    /\ unit.personalInfo = JObj([name |-> JStr("Ann")])
    /\ DOMAIN unit.omitted.o = {"personalInfo"}
    /\ unit.acceptedOmitted

(***************************************************************************)
(* Properties of the stage agents                                          *)
(***************************************************************************)
\* the response that settled last is a 2xx reply with a text
LastReplyHasText ==
    /\ lastResponse.outcome.kind = "body"
    /\ lastResponse.outcome.body.error = Undefined
    /\ lastResponse.outcome.body.candidates = "text"

\* the text of that reply is JSON for something other than an object:
\* null, a number, a string, a boolean (or an array)
LastReplyIsNoObject ==
    /\ LastReplyHasText
    /\ JSONParse(Trim(lastResponse.outcome.body.text)).ok
    /\ ~NonNullObject(JSONParse(Trim(lastResponse.outcome.body.text)).val)

\* C13 as stated: analyzeJob and createStrategy return only a non-null
\* object; a reply whose text is JSON null, a number, a string or a boolean
\* makes the stage fail and is not handed to the next stage.
C13_StagesReturnOnlyObjects ==
    Pipeline =>
       /\ completedStages >= 1 => NonNullObject(locals.jobAnalysis)
       /\ completedStages >= 2 => NonNullObject(locals.optimizationStrategy)
       /\ (lastResponse.stage \in {1, 2} /\ LastReplyIsNoObject)
            => (pc = "thrown" /\ failedStage = lastResponse.stage)

(***************************************************************************)
(* Properties of extractJSON and parseAIResponse                           *)
(***************************************************************************)
ExtractorSettled == unit.op = "extract" /\ unit.at = "settled"

\* the text is JSON for a record of the resume schema
ValidRecordText(txt) ==
    JSONParse(txt).ok /\ ResumeSchema(JSONParse(txt).val)

\* the text is JSON for something that is not a record of the resume schema
InvalidRecordText(txt) ==
    JSONParse(txt).ok /\ ~ResumeSchema(JSONParse(txt).val)

\* the call returned the record the text stands for
ReturnedRecordOf(txt) ==
    unit.out.ok /\ unit.out.val = JSONParse(txt).val

\* C14 as stated: for raw JSON, JSON inside a fence, one JSON object in
\* prose, and several brace spans of which exactly one is a valid record,
\* the extractJSON of every agent and parseAIResponse return that record.
C14_EveryFormYieldsTheRecord ==
    ExtractorSettled =>
       /\ (unit.form \in {"raw", "fenced", "prose"}
            /\ ValidRecordText(unit.first))
            => ReturnedRecordOf(unit.first)
       /\ (unit.form = "spans" /\ ValidRecordText(unit.first)
            /\ ~ValidRecordText(unit.second))
            => ReturnedRecordOf(unit.first)
       /\ (unit.form = "spans" /\ ~ValidRecordText(unit.first)
            /\ ValidRecordText(unit.second))
            => ReturnedRecordOf(unit.second)

\* C15 as stated: when the candidate parseAIResponse meets first (a fenced
\* block, or the longer of two brace spans) parses but is no valid record
\* while the other candidate is one, parseAIResponse returns the valid
\* record.
C15_LaterValidCandidateWins ==
    (ExtractorSettled /\ unit.by = "AIHandler") =>
       /\ (unit.form = "fenced-then-span" /\ InvalidRecordText(unit.first)
            /\ ValidRecordText(unit.second))
            => ReturnedRecordOf(unit.second)
       /\ (unit.form = "spans" /\ InvalidRecordText(unit.first)
            /\ ValidRecordText(unit.second)
            /\ TextLength(unit.first) > TextLength(unit.second))
            => ReturnedRecordOf(unit.second)
       /\ (unit.form = "spans" /\ InvalidRecordText(unit.second)
            /\ ValidRecordText(unit.first)
            /\ TextLength(unit.second) > TextLength(unit.first))
            => ReturnedRecordOf(unit.first)

\* C16 as stated: whatever parseAIResponse returns passes
\* validateResumeStructure; a payload that parses but violates the schema
\* makes it throw.
C16_ReturnsOnlyValidatedRecords ==
    (ExtractorSettled /\ unit.by = "AIHandler" /\ unit.out.ok)
       => ValidateResumeStructure(unit.out.val)

(***************************************************************************)
(* Properties of the model calls of the stages                             *)
(***************************************************************************)
\* the response that settled last is a 2xx reply without an error field
\* from which extractJSON extracts nothing
LastReplyUnextractable ==
    /\ LastResponseClean
    /\ ~AgentExtractJSON(Data(lastResponse.outcome)).ok

\* C17: every stage that is invoked calls callAPI once (stagesCalled gets
\* its entry with that call, so no stage appears twice), and a 2xx reply
\* from which nothing can be extracted makes the stage fail with no further
\* request: the run has thrown, the failed stage is the one that received
\* the reply, and the request that brought the reply is the last of its call.
C17_OneCallPerStageNoExtractionRetry ==
    Pipeline =>
       /\ \A i \in 1..Len(stagesCalled) : \A j \in 1..Len(stagesCalled) :
             stagesCalled[i] = stagesCalled[j] => i = j
       /\ LastReplyUnextractable =>
             /\ pc = "thrown"
             /\ failedStage = lastResponse.stage
             /\ stage = lastResponse.stage
             /\ requests = lastResponse.attempt

\* the strategy stage received prose on its first request and failed
C17_Witness ==
    /\ Pipeline
    /\ pc = "thrown"
    /\ failedStage = 2
    /\ LastReplyUnextractable
    /\ lastResponse.outcome.body.candidates = "text"
    /\ requests = 1
    /\ stagesCalled = <<1, 2>>

(***************************************************************************)
(* Properties of a run against an echoing model                            *)
(***************************************************************************)
\* the string literals in the serialization of a value
Literals(v) ==
    {Stringify(v)[i] : i \in {j \in 1..Len(Stringify(v)) :
                                Stringify(v)[j].k = "string"}}

\* the apply and the validate stage both got their resume back unchanged
EchoRun == Pipeline /\ pc = "returned" /\ {3, 4} \subseteq echoed

\* C18: when the replies of the apply and validate stages are the unchanged
\* serialization of the resume each stage was given, a run that succeeds
\* returns a record equal to the input resume, and every literal of the
\* input resume occurs in the serialization of the result.
C18_EchoRunReturnsInput ==
    EchoRun =>
       /\ result = resume
       /\ locals.optimizedResume = resume
       /\ Literals(resume) \subseteq Literals(result)

\* an echo run on the resume that lists the skill X
C18_Witness ==
    /\ EchoRun
    /\ S("X") \in Literals(resume)
    /\ S("X") \in Literals(result)

(***************************************************************************)
(* Properties of the progress events                                       *)
(***************************************************************************)
\* the fixed partition: the band of each stage, in hundredths of a percent
BandLow == <<Pct(0), Pct(20), Pct(40), Pct(70)>>
BandHigh == <<Pct(20), Pct(40), Pct(70), Pct(90)>>

\* the positions of the events that went through the callback of stage k
EventsOf(k) == {i \in 1..Len(progress) : progressStage[i] = k}

\* C19: every progress event of customizeResumeWithAgents lies in [0,100];
\* an event emitted through the callback of a stage lies inside the band of
\* that stage (0-20, 20-40, 40-70, 70-90); only the event that closes a
\* successful run lies above 90; and the last event of a stage that
\* returned, its local 100%, is the upper end of its band.
C19_ProgressWithinBands ==
    Pipeline =>
       /\ Len(progress) = Len(progressStage)
       /\ \A i \in 1..Len(progress) :
             /\ progress[i] >= Pct(0) /\ progress[i] <= Pct(100)
             /\ progressStage[i] \in 1..NumStages =>
                   /\ progress[i] >= BandLow[progressStage[i]]
                   /\ progress[i] <= BandHigh[progressStage[i]]
             /\ progress[i] > Pct(90) =>
                   /\ progressStage[i] = 0
                   /\ i = Len(progress)
                   /\ pc = "returned"
       /\ \A k \in 1..completedStages :
             /\ EventsOf(k) # {}
             /\ progress[CHOOSE i \in EventsOf(k) :
                             \A j \in EventsOf(k) : j <= i] = BandHigh[k]

\* a run that returned: the last event of the analyze stage is 20, that of
\* the validate stage 90, and the run closed with 100
C19_Witness ==
    /\ Pipeline
    /\ pc = "returned"
    /\ completedStages = NumStages
    /\ \E i \in EventsOf(1) : progress[i] = Pct(20)
    /\ \E i \in EventsOf(4) : progress[i] = Pct(90)
    /\ \E i \in EventsOf(3) : progress[i] = Pct(43)
    /\ progress[Len(progress)] = Pct(100)

(***************************************************************************)
(* C20: two interleaved runs behave as each would alone                    *)
(***************************************************************************)
\* C20: when two runs of customizeResumeWithAgents on the same handler
\* interleave at their awaits, each run, the executing one and the suspended
\* one, stands where it would stand had it received the same fetch outcomes
\* and timers with no other run: same stage and stage inputs, same attempt,
\* lastError, requests and delays, same progress events, same result or error
C20_InterleavedRunsAsAlone ==
    alone.on =>
       /\ Observed(Frame) = alone.at
       /\ Observed(parked) = parked.alone.at

\* both runs are in flight on different resumes, each past its first stage,
\* one suspended in a backoff delay and the other awaiting a retried fetch
C20_Witness ==
    /\ alone.on
    /\ pc = "delay"
    /\ stage >= 2
    /\ parked.pc = "fetch"
    /\ parked.stage >= 2
    /\ parked.attempt >= 2
    /\ parked.resume # resume

(***************************************************************************)
(* C22: exponential backoff                                                *)
(***************************************************************************)
\* C22: the delays of the running call grow exponentially: each delay
\* awaited before a further attempt is twice the delay awaited before the
\* attempt that preceded it.
C22_BackoffDoubles ==
    \A i \in 2..Len(delays) : delays[i] = 2 * delays[i - 1]

(***************************************************************************)
(* C28: the input is read only, data flows forward through the locals      *)
(***************************************************************************)
\* the local of customizeResumeWithAgents that holds the record of stage k
StageRecord(k, L) ==
    CASE k = 1 -> L.jobAnalysis
      [] k = 2 -> L.optimizationStrategy
      [] k = 3 -> L.optimizedResume
      [] OTHER -> L.finalResume

\* what the prompt of the running stage embeds, and where the record of the
\* stage before it came from
ForwardFlow ==
    Pipeline =>
       /\ stage = 1 => /\ request.resume = Undefined
                       /\ request.jobAnalysis = Undefined
                       /\ request.strategy = Undefined
       /\ stage = 2 => /\ request.resume = resume
                       /\ request.jobAnalysis = locals.jobAnalysis
                       /\ request.strategy = Undefined
       /\ stage = 3 => /\ request.resume = resume
                       /\ request.jobAnalysis = Undefined
                       /\ request.strategy = locals.optimizationStrategy
       /\ stage = 4 => /\ request.resume = locals.optimizedResume
                       /\ request.jobAnalysis = locals.jobAnalysis
                       /\ request.strategy = locals.optimizationStrategy
       /\ (stage > 1 /\ lastResponse.stage = stage - 1) =>
             LET extracted == AgentExtractJSON(Data(lastResponse.outcome))
             IN /\ extracted.ok
                /\ StageRecord(stage - 1, locals) = extracted.val

\* C28: no step of a run changes the input resume; the strategy and apply
\* prompts embed the input resume, the apply prompt the strategy of stage 2,
\* the validate prompt the candidate of the apply stage with the analysis of
\* stage 1 and the strategy of stage 2; and the record a stage hands on is
\* the one extracted from its reply.
C28_InputReadOnlyDataFlowsForward ==
    []ForwardFlow /\ [][resume' = resume]_vars

\* the validate stage is awaiting its reply about a candidate that differs
\* from the input resume
C28_Witness ==
    /\ Pipeline
    /\ stage = 4
    /\ pc = "fetch"
    /\ locals.optimizedResume # resume
    /\ locals.optimizedResume # Undefined
    /\ request.resume = locals.optimizedResume
    /\ locals.jobAnalysis # Undefined
    /\ locals.optimizationStrategy # Undefined

(***************************************************************************)
(* C27: one request and one stage at a time                                *)
(***************************************************************************)
\* C27: a run has at most one fetch or timer pending, and it belongs to the
\* running stage and attempt; the request of a stage after the first is
\* issued when every stage before it has returned its record and the reply
\* that settled last is the successful one of the stage before; the request
\* of an attempt after the first is issued when the attempt before it has
\* failed and its delay has elapsed.
C27_OneRequestOneStageAtATime ==
    /\ Cardinality(tally.fetches) + Cardinality(tally.timers) <= 1
    /\ tally.fetches # {} <=> tally.on /\ pc = "fetch"
    /\ tally.timers # {} <=> tally.on /\ pc = "delay"
    /\ \A f \in tally.fetches \cup tally.timers : f = <<stage, attempt>>
    /\ (tally.on /\ pc = "fetch") =>
          /\ completedStages = stage - 1
          /\ \A i \in 1..Len(stagesCalled) : stagesCalled[i] = i
          /\ Len(stagesCalled) = stage
          /\ (attempt = 1 /\ stage > 1) =>
                /\ lastResponse.stage = stage - 1
                /\ ~lastAttemptFailed
          /\ attempt > 1 =>
                /\ lastResponse.stage = stage
                /\ lastResponse.attempt = attempt - 1
                /\ lastAttemptFailed
                /\ Len(delays) = attempt - 1

\* the apply stage awaits its second attempt: the request pending is that
\* one, after the two earlier stages and the failed first attempt
C27_Witness ==
    /\ tally.on
    /\ pc = "fetch"
    /\ stage = 3
    /\ attempt = 2
    /\ tally.fetches = {<<3, 2>>}
    /\ tally.requests >= 4

(***************************************************************************)
(* C30: a run terminates within its budget                                 *)
(***************************************************************************)
WithinBudget ==
    /\ tally.requests <= NumStages * maxRetries
    /\ tally.delays <= NumStages * (maxRetries - 1)
    /\ Settled =>
          /\ tally.fetches = {}
          /\ tally.timers = {}
          /\ pc = "returned" => result # Undefined /\ thrown = NoError
          /\ pc = "thrown" => result = Undefined /\ thrown # NoError

\* C30: when every fetch settles and every timer fires, a run that was
\* called settles, returned with a record or thrown with an error; it has
\* then issued at most 4 * maxRetries fetches and started at most
\* 4 * (maxRetries - 1) delays, and none of them is pending.
C30_RunTerminatesWithinBudget ==
    []WithinBudget /\ ((pc # "idle") ~> Settled)

\* a run that returned after every stage succeeded on its last attempt
C30_Witness ==
    /\ tally.on
    /\ pc = "returned"
    /\ maxRetries = DefaultMaxRetries
    /\ tally.requests = NumStages * maxRetries
    /\ tally.delays = NumStages * (maxRetries - 1)
    /\ tally.fetches = {}

(***************************************************************************)
(* C24: the order of the extraction methods                                *)
(***************************************************************************)
\* a method of the chain yields nothing on the text
DirectFails(txt) == ~JSONParse(Trim(txt)).ok
FencedFails(txt) ==
    ~(CodeBlockMatch(txt).found /\ JSONParse(CodeBlockMatch(txt).span).ok)
SpanFails(txt) ==
    ~(BraceMatch(txt).found /\ JSONParse(BraceMatch(txt).span).ok)

\* the methods the chain runs on the text when each one is tried exactly
\* when all before it have failed
ChainOf(txt) ==
    <<"direct">>
    \o (IF ~DirectFails(txt) THEN <<>>
        ELSE <<"fenced">>
             \o (IF ~FencedFails(txt) THEN <<>>
                 ELSE <<"span">>
                      \o (IF ~SpanFails(txt) THEN <<>>
                          ELSE <<"balanced">>)))

Extractors == {"AIHandler", "AgenticAIHandler", "ResumeParser"}

\* C24 as stated: on every reply text parseAIResponse, the extractJSON of
\* the handler and parseAIParseResponse run direct parse, fenced block, span
\* from the first opening to the last closing brace and balanced spans in this
\* order, each exactly when every method before it failed; a fenced block
\* that does not parse is followed by the span search.
C24_MethodsInOrderUntilOneSucceeds ==
    (ExtractorSettled /\ unit.by \in Extractors /\ unit.form # "none") =>
       unit.methods = ChainOf(unit.response.body.text)

(***************************************************************************)
(* Properties of ResumeCustomizerApp                                       *)
(***************************************************************************)
\* the flag and the runs in flight agree: at most one run, the flag set
\* exactly while it is awaited
OneRunGuarded ==
    /\ app.inFlight <= 1
    /\ app.isCustomizing <=> (app.inFlight = 1)

\* a step in which startCustomization found the flag set
BusyCall == app'.said = AlreadyCustomizing /\ app.said # AlreadyCustomizing

\* C26: at most one pipeline run started by startCustomization is in flight
\* at any time; a call of startCustomization that arrives while isCustomizing
\* is true invokes no pipeline and leaves the flag set; and once every run
\* has ended, by a customized record, by the fallback or by a throw,
\* isCustomizing is false
C26_AtMostOneRunInFlight ==
    /\ []OneRunGuarded
    /\ [][BusyCall => /\ app.isCustomizing
                      /\ app' = [app EXCEPT !.said = AlreadyCustomizing]
                      /\ UNCHANGED pageVars]_vars

\* startCustomization was called during a run and the run is still awaited
C26_Witness ==
    /\ app.said = AlreadyCustomizing
    /\ app.isCustomizing
    /\ app.inFlight = 1
    /\ pc = "fetch"
    /\ stage > 1

\* a step in which startCustomization invoked the pipeline
PipelineInvoked == app'.inFlight > app.inFlight

\* a step in which startCustomization found a requirement missing
Refused == app'.said = RequirementsMissing /\ app.said # RequirementsMissing

\* the three requirements of a customization
RequirementsMet ==
    /\ app.apiKey # JNull
    /\ app.currentResume # NoObject
    /\ Trim(app.jobDescription) # <<>>

\* C29: startCustomization invokes a pipeline only when an API key is
\* stored, currentResume is not null and the trimmed job description is not
\* empty; a call in a state where one of them is missing makes no model
\* request and changes no resume field of the app
C29_NoRunWithoutRequirements ==
    /\ [][PipelineInvoked => RequirementsMet]_vars
    /\ [][Refused => /\ ~RequirementsMet
                     /\ UNCHANGED pageVars
                     /\ app' = [app EXCEPT !.said = RequirementsMissing]]_vars
    /\ [](pc # "idle" => app.inFlight > 0)

\* startCustomization was called with a key, a resume and a job description
\* of white space only, and refused
C29_Witness ==
    /\ app.said = RequirementsMissing
    /\ app.apiKey # JNull
    /\ app.currentResume # NoObject
    /\ app.jobDescription = <<WS>>
    /\ pc = "idle"
    /\ requests = 0

\* C25: after a pipeline failure in which startCustomization fell back to
\* the original resume, the notification it shows is 'Resume loaded for
\* editing (AI customization was skipped)' and never 'Resume customized
\* successfully!'
C25_FallbackNotAnnouncedAsCustomized ==
    app.fellBack /\ app.said \in {Skipped, Customized} => app.said = Skipped

\* a step in which startCustomization ends after its pipeline threw
EndsAfterThrow ==
    /\ app.inFlight > 0
    /\ pc = "thrown"
    /\ app'.inFlight < app.inFlight

\* the fallback is in place and the page can edit it
FallbackInstalled ==
    /\ app.originalResume # NoObject
    /\ app'.currentResume.val = app.originalResume.val
    /\ app'.customizedResume.val = app.originalResume.val
    /\ app'.originalResume = app.originalResume
    /\ app'.editorSection
    /\ ~app'.progressModal

\* C21: when the pipeline throws inside startCustomization, the app installs
\* as currentResume and customizedResume a copy equal to originalResume,
\* never a partial stage output, leaves originalResume as it was, and ends
\* the run with the resume usable for editing
C21_FallbackToOriginal == [][EndsAfterThrow => FallbackInstalled]_vars

\* a step in which resetResume copied the original and said so
ResetStep == app'.said = ResetDone /\ app.said # ResetDone

\* originalResume is the record parsed at the latest upload or sample load,
\* or null when there was none or the file was removed since
OriginalAsParsed ==
    IF app.parsed = Undefined THEN app.originalResume = NoObject
    ELSE app.originalResume.val = app.parsed

\* a step that is a removal of the file or the loading of a resume: all
\* three fields null, or the original and the current resume both as parsed
\* and the customized one left alone
OriginalReplaced ==
    \/ /\ app'.parsed = Undefined
       /\ app'.originalResume = NoObject
       /\ app'.currentResume = NoObject
       /\ app'.customizedResume = NoObject
    \/ /\ app'.parsed # Undefined
       /\ app'.originalResume.val = app'.parsed
       /\ app'.currentResume.val = app'.parsed
       /\ app'.customizedResume = app.customizedResume
       /\ app'.said = app.said
       /\ app'.inFlight = app.inFlight
       /\ UNCHANGED pageVars

\* C23: after any editor edits, customization runs and resets that follow an
\* upload, resetResume sets currentResume to a value equal to the resume
\* parsed at that upload; originalResume is changed by no operation other
\* than file upload, sample load and removeFile
C23_ResetRestoresUpload ==
    /\ []OriginalAsParsed
    /\ [][ResetStep => /\ app.parsed # Undefined
                       /\ app'.currentResume.val = app.parsed
                       /\ app'.originalResume = app.originalResume]_vars
    /\ [][app'.originalResume # app.originalResume => OriginalReplaced]_vars

\* resetResume has brought back the uploaded resume after a customization
\* had installed another record
C23_Witness ==
    /\ app.said = ResetDone
    /\ app.parsed # Undefined
    /\ app.currentResume.val = app.parsed
    /\ app.customizedResume # NoObject
    /\ app.customizedResume.val # app.parsed
    /\ ~app.fellBack

(***************************************************************************)
(* Properties of the progress events                                       *)
(***************************************************************************)
NonDecreasing(percentages) ==
    \A i \in 1..(Len(percentages) - 1) : percentages[i] <= percentages[i + 1]

\* C31: the percentages customizeResumeWithAgents passes to its progress
\* callback never decrease over the run, within a stage and from one stage
\* to the next, whether the run returns or throws
C31_ProgressNeverDecreases == Pipeline => NonDecreasing(progress)

\* a run that threw at the last stage, after the events of all four stages
C31_Witness ==
    /\ Pipeline
    /\ pc = "thrown"
    /\ failedStage = NumStages
    /\ Len(progress) > 15
    /\ \E i \in 1..(Len(progress) - 1) : progress[i] < progress[i + 1]

(***************************************************************************)
(* Properties of the completion event                                      *)
(***************************************************************************)
\* customizeResume of AIHandler is the running entry point
Legacy == entry = "AIHandler.customizeResume"

\* the run has passed 100 to its progress callback
EmittedHundred == \E i \in 1..Len(progress) : progress[i] = Pct(100)

\* validateResumeStructure of the handler whose entry point runs accepts rec
HandlerValidates(rec) ==
    IF Legacy THEN ValidateResumeStructure(rec)
    ELSE AgenticValidateResumeStructure(rec)

\* C32 as stated: a run of customizeResumeWithAgents or of customizeResume
\* that has thrown has emitted no progress event of 100, and a run that has
\* emitted 100 has returned a record that passed the validator of its handler.
C32_HundredOnlyAfterValidation ==
    (Pipeline \/ Legacy) =>
       /\ pc = "thrown" => ~EmittedHundred
       /\ EmittedHundred => /\ pc = "returned"
                            /\ HandlerValidates(result)

(***************************************************************************)
(* Properties of the stages' own progress                                  *)
(***************************************************************************)
\* the callback of stage k has been passed the stage-local 100
LocalHundred(k) ==
    \E i \in 1..Len(progress) :
       progressStage[i] = k /\ progress[i] = StageProgress(k, 100)

\* C33 as stated: a stage whose callback has been passed the local 100 has
\* returned its record, and a stage that failed, at its model call or at
\* extraction, has not passed 100 to its callback.
C33_LocalHundredOnlyAfterExtraction ==
    Pipeline =>
       \A k \in 1..NumStages :
          /\ LocalHundred(k) => completedStages >= k
          /\ failedStage = k => ~LocalHundred(k)

(***************************************************************************)
(* Properties of the progress modal                                        *)
(***************************************************************************)
\* a step in which a startCustomization call that showed the progress modal
\* runs from its settled await to the end of its finally block
CallOver == app.inFlight > 0 /\ app'.inFlight < app.inFlight

\* C34 as stated: every startCustomization call that showed the progress
\* modal has hidden it when it ends, on every outcome (nothing of the call
\* runs after its finally block, so a modal it has not hidden by then it
\* never hides).
C34_ModalHiddenWhenCallEnds == [][CallOver => ~app'.progressModal]_vars

(***************************************************************************)
(* Properties of handlers that run while a customization is awaited        *)
(***************************************************************************)
\* a step in which startCustomization ends and installs the record its
\* pipeline returned
ResultInstalled ==
    /\ CallOver
    /\ pc = "returned"
    /\ app'.currentResume.val = result

\* C35 as stated: when a run finishes and installs its result as
\* currentResume, originalResume holds at that moment what it held when the
\* run was started (the resume the result derives from), and a resume that
\* was removed during the run does not come back: the end of the run leaves
\* currentResume as the handlers that ran meanwhile left it.
C35_InstalledResultBelongsToOriginal ==
    [][/\ ResultInstalled => app.originalResume.val = app.basis
       /\ (CallOver /\ app.basis # JNull /\ app.originalResume = NoObject)
             => app'.currentResume = app.currentResume]_vars

(***************************************************************************)
(* handleFileUpload with ResumeParser.parseFile                            *)
(***************************************************************************)
\* the types validateFile lets through
AllowedTypes == {"application/pdf", "docx", "text/plain"}

\* (progress, message) => this.updateProgress(10 + progress * 0.8, message)
UploadProgress(local) == Pct(10) + local * 80

\* (field || []).map(item => ({ title: item.title || '', ... })) of
\* cleanExperience, cleanEducation and cleanProjects throws: the value has
\* no map, or an item is null
MapThrows(field) ==
    /\ Truthy(field)
    /\ \/ ~IsArray(field)
       \/ \E i \in 1..Len(field.a) : Nullish(field.a[i])

\* validateAndCleanResumeData(data) throws a TypeError
ValidateAndCleanResumeDataThrows(data) ==
    \/ MapThrows(Get(data, "experience"))
    \/ MapThrows(Get(data, "education"))
    \/ MapThrows(Get(data, "projects"))

\* parseTextToJSON from its settled await of parseWithAI on: the percentages
\* it passes to the callback and the parser whose record it returns
ParseTextToJSON(parsedData) ==
    IF ~parsedData.ok
    THEN [events |-> <<85>>, parser |-> "fallback"]
    ELSE IF ValidateAndCleanResumeDataThrows(parsedData.val)
    THEN [events |-> <<90, 85>>, parser |-> "fallback"]
    ELSE [events |-> <<90>>, parser |-> "ai"]

\* what the callback of handleFileUpload makes of the parser's percentages
Uploaded(events) == [i \in 1..Len(events) |-> UploadProgress(events[i])]

\* a file has been chosen; key tells whether localStorage holds an API key
UploadInit ==
    /\ maxRetries = DefaultMaxRetries
    /\ retryDelay = DefaultRetryDelay
    /\ resume = Undefined
    /\ parked = NoFrame
    /\ active = 1
    /\ app = NewApp
    /\ alone = NoShadow
    /\ tally = NoTally
    /\ NoCallYet
    /\ \E type \in AllowedTypes : \E key \in BOOLEAN :
          unit = [op |-> "upload", at |-> "chosen", type |-> type,
                  key |-> key, isProcessingFile |-> FALSE,
                  progressModal |-> FALSE, percentages |-> <<>>,
                  response |-> NoData, parser |-> "none"]

\* parseFile from the settled parseWithAI on, and handleFileUpload from the
\* settled parseFile up to its timer: resumeData is an object on every path
UploadContinues(u, parsedData, response) ==
    LET parsing == ParseTextToJSON(parsedData) IN
    /\ unit' = [u EXCEPT
                   !.at = "timer",
                   !.response = response,
                   !.parser = parsing.parser,
                   !.percentages = @ \o Uploaded(parsing.events \o <<100>>)
                                     \o <<Pct(90), Pct(100)>>]
    /\ UNCHANGED <<cfgVars, entry, callVars, errVars, runVars, obsVars,
                   parked, active, app, alone, tally>>

\* handleFileUpload(event) up to the await of parsePDF, parseDOCX or parseTXT
\* in parseFile
HandleFileUploadStarts ==
    /\ unit.op = "upload"
    /\ unit.at = "chosen"
    /\ unit' = [unit EXCEPT
                   !.at = "reading",
                   !.isProcessingFile = TRUE,
                   !.progressModal = TRUE,
                   !.percentages = <<Pct(10)>> \o Uploaded(<<20>>)]
    /\ UNCHANGED <<cfgVars, entry, callVars, errVars, runVars, obsVars,
                   parked, active, app, alone, tally>>

\* the text of the file is there, or reading it failed: parseFile goes on to
\* the await of callGeminiAPI in parseWithAI, which throws before it when no
\* key is stored
TextExtracted ==
    /\ unit.op = "upload"
    /\ unit.at = "reading"
    /\ \E read \in BOOLEAN :
          IF ~read
          THEN /\ unit' = [unit EXCEPT !.at = "failed",
                                       !.isProcessingFile = FALSE,
                                       !.progressModal = FALSE]
               /\ UNCHANGED <<cfgVars, entry, callVars, errVars, runVars,
                              obsVars, parked, active, app, alone, tally>>
          ELSE IF ~unit.key
          THEN UploadContinues(
                  [unit EXCEPT !.percentages = @ \o Uploaded(<<60, 70>>)],
                  Threw(<<"AI parsing not available">>), NoData)
          ELSE /\ unit' = [unit EXCEPT
                              !.at = "asking",
                              !.percentages = @ \o Uploaded(<<60, 70>>)]
               /\ UNCHANGED <<cfgVars, entry, callVars, errVars, runVars,
                              obsVars, parked, active, app, alone, tally>>

\* the replies of the stubbed model to the parse prompt
ParseReplies ==
    TextlessResponses
    \cup {Data(OkBody(Body(Undefined, "text", Reply(form, payload, payload)))) :
             form \in {"raw", "fenced", "prose"}, payload \in Payloads}

\* callGeminiAPI settles in parseWithAI: it throws, or it returns a reply
\* that parseAIParseResponse parses
ParseWithAISettles ==
    /\ unit.op = "upload"
    /\ unit.at = "asking"
    /\ \/ UploadContinues(unit, Threw(<<"Max retries exceeded">>), NoData)
       \/ \E response \in ParseReplies :
             UploadContinues(unit,
                ParseAIParseResponse(response, DirectParse(response)),
                response)

\* the timer of 500 ms fires: hideProgressModal() and the flag cleared
UploadTimerFires ==
    /\ unit.op = "upload"
    /\ unit.at = "timer"
    /\ unit' = [unit EXCEPT !.at = "done",
                            !.isProcessingFile = FALSE,
                            !.progressModal = FALSE]
    /\ UNCHANGED <<cfgVars, entry, callVars, errVars, runVars, obsVars,
                   parked, active, app, alone, tally>>

UploadNext ==
    \/ HandleFileUploadStarts
    \/ TextExtracted
    \/ ParseWithAISettles
    \/ UploadTimerFires

UploadSpec == UploadInit /\ [][UploadNext]_vars

(***************************************************************************)
(* Properties of the progress of an upload                                 *)
(***************************************************************************)
\* C36 as stated: the percentages handleFileUpload passes to updateProgress
\* never decrease, begin with 10 and, when the upload has succeeded, end
\* with 100, whichever way the parser went.
C36_UploadProgressNeverDecreases ==
    (unit.op = "upload" /\ unit.percentages # <<>>) =>
       /\ NonDecreasing(unit.percentages)
       /\ unit.percentages[1] = Pct(10)
       /\ unit.at \in {"timer", "done"} =>
             unit.percentages[Len(unit.percentages)] = Pct(100)
====
